---------------------------- MODULE Spec2Model ----------------------------
(***************************************************************************)
(* Normattiva -> Camera dei Deputati matching (src/matching.py and its     *)
(* sibling scripts), as a state machine.                                   *)
(*                                                                         *)
(* Texts are TLA+ strings; Char(s, i) is the i-th character.  The text     *)
(* operators work character by character, as the regular expressions of    *)
(* the source do, over the ASCII alphabet.                                 *)
(***************************************************************************)
EXTENDS Integers, Sequences, FiniteSets, TLC

VARIABLES
    pc,            \* position of the running script
    normattiva,    \* the Normattiva registry: act detail by codiceRedazionale
    camera,        \* the Camera SPARQL endpoint: the rows it holds
    listing,       \* the Normattiva registry: the pages of ricerca/avanzata
    pagina,        \* fetch_norms: pagina
    requested,     \* the paginaCorrente of every request posted, in order
    atti,          \* fetch_norms: atti (main: all_norms)
    targets,       \* main: targets
    titolo,        \* match_norm: titolo
    sotto_titolo,  \* match_norm: sotto_titolo
    dl_ref,        \* match_norm: dl_ref    (<<>> is None)
    law_date,      \* match_norm: law_date  (<<>> is None)
    raw_a,         \* bindings returned by camera_search_by_dl_ref
    raw_b,         \* bindings returned by camera_search_by_date
    hits_a,        \* match_norm: hits_a
    hits_b,        \* match_norm: hits_b
    candidates,    \* match_norm: matched before the keyword refinement
    matched,       \* match_norm: matched
    confidence,    \* match_norm: confidence
    again,         \* refine_by_keywords applied to its own result
    scored,        \* refine_by_keywords: scored (<<>> : not built)
    queried,       \* the queries match_norm posted to the Camera endpoint, in order
    results,       \* main: results
    failure,       \* the request whose exception ended the run ("" : none)
    summary,       \* main: the printed tally (<<>> : not printed)
    report,        \* main: the content of the saved file (<<>> : not written)
    call_arg,      \* the argument of a function that is called on its own
    call_out,      \* what that call returned (<<>> : not called yet)
    norme,         \* merge: the rows of the Normattiva CSV
    camera_rows,   \* merge: the rows of the Camera CSV
    merged,        \* merge: the list returned (<<>> before the call)
    merge_stats,   \* main of merge.py: the counts of the summary (<<>> : not printed)
    art_server,    \* dettaglio-atto: the answer to each idArticolo
    art_id,        \* fetch_all_articles: art_id
    art_posted,    \* the idArticolo of every request posted, in order
    articles,      \* fetch_all_articles: articles
    metadata,      \* fetch_all_articles: metadata (<<>> is None)
    art_result     \* what fetch_all_articles returned (<<>> : not returned)

registryVars == <<normattiva, camera, listing>>

fetchVars == <<pagina, requested, atti>>

matchVars == <<titolo, sotto_titolo, dl_ref, law_date, raw_a, raw_b,
               hits_a, hits_b, candidates, matched, confidence, again, scored,
               queried>>

mainVars == <<targets, results, failure, summary, report>>

callVars == <<call_arg, call_out>>

\* the state of the functions that main of src/matching.py does not reach
mergeVars == <<norme, camera_rows, merged, merge_stats>>

articleVars == <<art_server, art_id, art_posted, articles, metadata, art_result>>

unitVars == <<callVars, mergeVars, articleVars>>

vars == <<pc, registryVars, fetchVars, matchVars, mainVars, unitVars>>

---------------------------------------------------------------------------
(* Characters and character classes (Python's str / re, ASCII part).       *)

Char(s, i) == SubSeq(s, i, i)

CharsOf(s) == { Char(s, i) : i \in 1..Len(s) }

UpperChars == "ABCDEFGHIJKLMNOPQRSTUVWXYZ"

LowerChars == "abcdefghijklmnopqrstuvwxyz"

DigitChars == "0123456789"

Upper == CharsOf(UpperChars)

Digit == CharsOf(DigitChars)

WordChars == CharsOf(UpperChars) \cup CharsOf(LowerChars) \cup Digit \cup {"_"}

\* \d
IsDigit(c) == c \in Digit

\* \w
IsWordChar(c) == c \in WordChars

\* \s
IsSpace(c) == c \in {" ", "\t", "\n"}

\* str.lower() of one character
lower_char(c) ==
    IF c \in Upper
    THEN Char(LowerChars, CHOOSE i \in 1..Len(UpperChars) : Char(UpperChars, i) = c)
    ELSE c

RECURSIVE lower_from(_, _)
lower_from(s, i) ==
    IF i > Len(s) THEN "" ELSE lower_char(Char(s, i)) \o lower_from(s, i + 1)

\* str.lower()
lower(s) == lower_from(s, 1)

\* s[i:].startswith(p), i counted from 1
StartsWithAt(s, i, p) ==
    /\ i + Len(p) - 1 <= Len(s)
    /\ SubSeq(s, i, i + Len(p) - 1) = p

\* p in s
Contains(s, p) == \E i \in 1..(Len(s) + 1) : StartsWithAt(s, i, p)

\* the last index of the run of \s characters that starts at i (i - 1: none)
RECURSIVE SpaceRunEnd(_, _)
SpaceRunEnd(s, i) ==
    IF i <= Len(s) /\ IsSpace(Char(s, i)) THEN SpaceRunEnd(s, i + 1) ELSE i - 1

\* the last index of the run of \w characters that starts at i (i - 1: none)
RECURSIVE WordRunEnd(_, _)
WordRunEnd(s, i) ==
    IF i <= Len(s) /\ IsWordChar(Char(s, i)) THEN WordRunEnd(s, i + 1) ELSE i - 1

\* the last index of the run of \d characters that starts at i (i - 1: none)
RECURSIVE DigitRunEnd(_, _)
DigitRunEnd(s, i) ==
    IF i <= Len(s) /\ IsDigit(Char(s, i)) THEN DigitRunEnd(s, i + 1) ELSE i - 1

---------------------------------------------------------------------------
(* _significant_words (src/matching.py:150-152)                            *)

\* the named character references the texts of the model use (html.unescape)
Entities == { <<"&quot;", "\"">>, <<"&amp;", "&">> }

RECURSIVE unescape_from(_, _)
unescape_from(s, i) ==
    IF i > Len(s) THEN ""
    ELSE LET hit == { e \in Entities : StartsWithAt(s, i, e[1]) }
         IN  IF hit # {}
             THEN LET e == CHOOSE x \in hit : TRUE
                  IN  e[2] \o unescape_from(s, i + Len(e[1]))
             ELSE Char(s, i) \o unescape_from(s, i + 1)

\* html.unescape(text)
unescape(s) == unescape_from(s, 1)

RECURSIVE collapse_from(_, _)
collapse_from(s, i) ==
    IF i > Len(s) THEN ""
    ELSE IF IsSpace(Char(s, i))
         THEN " " \o collapse_from(s, SpaceRunEnd(s, i) + 1)
         ELSE Char(s, i) \o collapse_from(s, i + 1)

\* re.sub(r'\s+', ' ', s)
collapse_ws(s) == collapse_from(s, 1)

\* the length a word must reach: \w{4,}
MinWordLen == 4

\* \b at position i (between s[i-1] and s[i])
WordBoundary(s, i) ==
    LET before == i > 1 /\ IsWordChar(Char(s, i - 1))
        after  == i <= Len(s) /\ IsWordChar(Char(s, i))
    IN  before # after

\* re.findall(r'\b\w{4,}\b', s): scan from i, take the greedy run when it
\* starts at a boundary and is long enough, go on after it
RECURSIVE findall_words(_, _)
findall_words(s, i) ==
    IF i > Len(s) THEN {}
    ELSE LET e == WordRunEnd(s, i)
         IN  IF WordBoundary(s, i) /\ e - i + 1 >= MinWordLen
             THEN {SubSeq(s, i, e)} \cup findall_words(s, e + 1)
             ELSE findall_words(s, i + 1)

significant_words(text) == findall_words(lower(collapse_ws(unescape(text))), 1)

---------------------------------------------------------------------------
(* refine_by_keywords (src/matching.py:155-166)                            *)

Max(S) == CHOOSE m \in S : \A x \in S : x <= m

Min(S) == CHOOSE m \in S : \A x \in S : m <= x

\* the elements of seq at the indices of K, in seq's order, from index i on
RECURSIVE SelectFrom(_, _, _)
SelectFrom(seq, K, i) ==
    IF i > Len(seq) THEN <<>>
    ELSE (IF i \in K THEN <<seq[i]>> ELSE <<>>) \o SelectFrom(seq, K, i + 1)

\* [x for x in seq if Keep(x)]
Filter(seq, Keep(_)) == SelectFrom(seq, { k \in 1..Len(seq) : Keep(seq[k]) }, 1)

score(norm_words, c) == Cardinality(norm_words \cap significant_words(c.titolo))

\* only the first of the best candidates
refine_first_best(sotto, cands) ==
    IF Len(cands) <= 1 THEN cands
    ELSE LET norm_words == significant_words(sotto)
             max_score  == Max({ score(norm_words, cands[k]) : k \in 1..Len(cands) })
             first      == Min({ k \in 1..Len(cands) : score(norm_words, cands[k]) = max_score })
         IN  <<cands[first]>>

\* the candidates above the lowest score
refine_drop_worst(sotto, cands) ==
    IF Len(cands) <= 1 THEN cands
    ELSE LET norm_words == significant_words(sotto)
             min_score  == Min({ score(norm_words, cands[k]) : k \in 1..Len(cands) })
             AboveMin(c) == score(norm_words, c) > min_score
             kept       == Filter(cands, AboveMin)
         IN  IF kept = <<>> THEN cands ELSE kept

\* the best candidates, the last of them first
refine_best_reversed(sotto, cands) ==
    IF Len(cands) <= 1 THEN cands
    ELSE LET norm_words == significant_words(sotto)
             max_score  == Max({ score(norm_words, cands[k]) : k \in 1..Len(cands) })
             IsBest(c)  == score(norm_words, c) = max_score
             best       == Filter(cands, IsBest)
         IN  [ k \in 1..Len(best) |-> best[Len(best) + 1 - k] ]

\* the best candidates, and none when no candidate shares a word
refine_sharing_only(sotto, cands) ==
    IF Len(cands) <= 1 THEN cands
    ELSE LET norm_words == significant_words(sotto)
             max_score  == Max({ score(norm_words, cands[k]) : k \in 1..Len(cands) })
             IsBest(c)  == score(norm_words, c) = max_score /\ max_score > 0
         IN  Filter(cands, IsBest)

refine_by_keywords(sotto, cands) ==
    IF Len(cands) <= 1 THEN cands
    ELSE LET norm_words == significant_words(sotto)
             max_score  == Max({ score(norm_words, cands[k]) : k \in 1..Len(cands) })
             IsBest(c)  == score(norm_words, c) = max_score
         IN  Filter(cands, IsBest)

\* the scores are computed for a list of any length
scored_unguarded(sotto, cands) ==
    LET norm_words == significant_words(sotto)
    IN  [ k \in 1..Len(cands) |-> <<cands[k], score(norm_words, cands[k])>> ]

\* scored = [(c, len(norm_words & _significant_words(c["titolo"]))) ...], which
\* the early return of a list of at most one candidate never reaches
scored_pairs(sotto, cands) ==
    IF Len(cands) <= 1 THEN <<>>
    ELSE LET norm_words == significant_words(sotto)
         IN  [ k \in 1..Len(cands) |-> <<cands[k], score(norm_words, cands[k])>> ]

---------------------------------------------------------------------------
(* flatten_hits, intersect (src/matching.py:132-147)                       *)

\* one SPARQL JSON binding of a variable
Binding(type, value) == [type |-> type, value |-> value]

\* {k: v["value"] for k, v in h.items()}
project(h) == [k \in DOMAIN h |-> h[k].value]

\* the last row of hits with the atto of row i
LastRowOf(hits, i) ==
    hits[Max({ j \in 1..Len(hits) : hits[j].atto.value = hits[i].atto.value })]

\* flatten_hits keeping, for each act, its last row instead of its first
RECURSIVE flatten_last_from(_, _, _)
flatten_last_from(hits, i, seen) ==
    IF i > Len(hits) THEN <<>>
    ELSE LET uri == hits[i].atto.value
         IN  IF uri \notin seen
             THEN <<project(LastRowOf(hits, i))>>
                      \o flatten_last_from(hits, i + 1, seen \cup {uri})
             ELSE flatten_last_from(hits, i + 1, seen)

flatten_hits_last(hits) == flatten_last_from(hits, 1, {})

\* the loop of flatten_hits from row i on, with the set seen so far
RECURSIVE flatten_from(_, _, _)
flatten_from(hits, i, seen) ==
    IF i > Len(hits) THEN <<>>
    ELSE LET uri == hits[i].atto.value
         IN  IF uri \notin seen
             THEN <<project(hits[i])>> \o flatten_from(hits, i + 1, seen \cup {uri})
             ELSE flatten_from(hits, i + 1, seen)

\* every row projected, with no test of the act seen before
flatten_hits_all(hits) == [k \in 1..Len(hits) |-> project(hits[k])]

flatten_hits(hits) == flatten_from(hits, 1, {})

\* the acts of both lists, taken from hits_b
intersect_from_b(a, b) ==
    LET uris_a == { a[k].atto : k \in 1..Len(a) }
        InA(h) == h.atto \in uris_a
    IN  Filter(b, InA)

intersect(a, b) ==
    LET uris_b == { b[k].atto : k \in 1..Len(b) }
        InB(h) == h.atto \in uris_b
    IN  Filter(a, InB)

---------------------------------------------------------------------------
(* match_norm: combination and confidence (src/matching.py:182-199)        *)

\* intersection with a fallback to hits_a when it is empty
combine_fallback_a(a, b) ==
    IF a # <<>> /\ b # <<>> /\ intersect(a, b) # <<>> THEN intersect(a, b)
    ELSE IF a # <<>> THEN a
    ELSE b

\* the two lists one after the other
combine_concat(a, b) == a \o b

\* intersection with no fallback
combine_no_fallback(a, b) == intersect(a, b)

\* if hits_a and hits_b: ... elif hits_a: ... else: ...
combine(a, b) ==
    IF a # <<>> /\ b # <<>> THEN intersect(a, b)
    ELSE IF a # <<>> THEN a
    ELSE b

\* two candidates are not yet ambiguous
classify_over_two(m) ==
    IF Len(m) = 1 THEN "exact"
    ELSE IF Len(m) > 2 THEN "ambiguous"
    ELSE "no_match"

\* if len(matched) == 1: ... elif len(matched) > 1: ... else: ...
classify(m) ==
    IF Len(m) = 1 THEN "exact"
    ELSE IF Len(m) > 1 THEN "ambiguous"
    ELSE "no_match"

---------------------------------------------------------------------------
(* extract_decreto_legge_ref (src/matching.py:52-64)                       *)

\* an optional value: <<>> is None, <<x>> is x
None == <<>>

Some(x) == <<x>>

\* the pattern r'decreto-legge\s+(\d+\s+\w+\s+\d{4}),\s*n\.\s*(\d+)' with
\* re.IGNORECASE, tried at position i.  Every quantified class is followed by
\* a character outside the class, so the greedy runs are the only way to match.
dl_match_at(s, i) ==
    LET kw   == "decreto-legge"
        sp1  == SpaceRunEnd(s, i + Len(kw))        \* \s+
        g1   == sp1 + 1                            \* group 1 starts
        day  == DigitRunEnd(s, g1)                 \* \d+
        sp2  == SpaceRunEnd(s, day + 1)            \* \s+
        mon  == WordRunEnd(s, sp2 + 1)             \* \w+
        sp3  == SpaceRunEnd(s, mon + 1)            \* \s+
        yr   == sp3 + 4                            \* \d{4}
        sp4  == SpaceRunEnd(s, yr + 2)             \* ,\s*
        sp5  == SpaceRunEnd(s, sp4 + 3)            \* n\.\s*
        num  == DigitRunEnd(s, sp5 + 1)            \* (\d+)
        ok   == /\ i + Len(kw) - 1 <= Len(s)
                /\ lower(SubSeq(s, i, i + Len(kw) - 1)) = kw
                /\ sp1 >= i + Len(kw)
                /\ day >= g1
                /\ sp2 >= day + 1
                /\ mon >= sp2 + 1
                /\ sp3 >= mon + 1
                /\ yr <= Len(s)
                /\ \A k \in (sp3 + 1)..yr : IsDigit(Char(s, k))
                /\ yr + 1 <= Len(s) /\ Char(s, yr + 1) = ","
                /\ sp4 + 2 <= Len(s)
                /\ lower(Char(s, sp4 + 1)) = "n"
                /\ Char(s, sp4 + 2) = "."
                /\ num >= sp5 + 1
    IN  IF ok
        THEN Some([data_str |-> SubSeq(s, g1, yr), numero |-> SubSeq(s, sp5 + 1, num)])
        ELSE None

\* re.search: the match at the leftmost position that has one
RECURSIVE dl_search(_, _)
dl_search(s, i) ==
    IF i > Len(s) THEN None
    ELSE IF dl_match_at(s, i) # None THEN dl_match_at(s, i)
    ELSE dl_search(s, i + 1)

\* the match at the rightmost position that has one
RECURSIVE dl_search_last(_, _)
dl_search_last(s, i) ==
    IF i < 1 THEN None
    ELSE IF dl_match_at(s, i) # None THEN dl_match_at(s, i)
    ELSE dl_search_last(s, i - 1)

\* the last reference of the text instead of the first
extract_last_decreto_legge_ref(text) == dl_search_last(text, Len(text))

extract_decreto_legge_ref(text) == dl_search(text, 1)

---------------------------------------------------------------------------
(* extract_law_date (src/matching.py:67-82)                                *)

MESI == [gennaio |-> "01", febbraio |-> "02", marzo |-> "03", aprile |-> "04",
         maggio |-> "05", giugno |-> "06", luglio |-> "07", agosto |-> "08",
         settembre |-> "09", ottobre |-> "10", novembre |-> "11", dicembre |-> "12"]

\* the digits of s without their leading zeros: str(int(s))
RECURSIVE strip_zeros(_)
strip_zeros(s) ==
    IF Len(s) > 1 /\ Char(s, 1) = "0" THEN strip_zeros(SubSeq(s, 2, Len(s))) ELSE s

\* the day as it was written with its leading zeros dropped, and no padding
day_unpadded(day) == strip_zeros(day)

\* f"{int(day):02d}"
day_02d(day) ==
    LET d == strip_zeros(day) IN IF Len(d) < 2 THEN "0" \o d ELSE d

\* the pattern r'(\d+)\s+(\w+)\s+(\d{4})' tried at position i: <<>> or
\* <<day, month_name, year>>
date_match_at(s, i) ==
    LET day == DigitRunEnd(s, i)                   \* (\d+)
        sp1 == SpaceRunEnd(s, day + 1)             \* \s+
        mon == WordRunEnd(s, sp1 + 1)              \* (\w+)
        sp2 == SpaceRunEnd(s, mon + 1)             \* \s+
        yr  == sp2 + 4                             \* (\d{4})
        ok  == /\ day >= i
               /\ sp1 >= day + 1
               /\ mon >= sp1 + 1
               /\ sp2 >= mon + 1
               /\ yr <= Len(s)
               /\ \A k \in (sp2 + 1)..yr : IsDigit(Char(s, k))
    IN  IF ok
        THEN <<SubSeq(s, i, day), SubSeq(s, sp1 + 1, mon), SubSeq(s, sp2 + 1, yr)>>
        ELSE <<>>

RECURSIVE date_search(_, _)
date_search(s, i) ==
    IF i > Len(s) THEN <<>>
    ELSE IF date_match_at(s, i) # <<>> THEN date_match_at(s, i)
    ELSE date_search(s, i + 1)

extract_law_date(t) ==
    LET m == date_search(t, 1)
    IN  IF m = <<>> THEN None
        ELSE LET month_name == lower(m[2])
             IN  IF month_name \in DOMAIN MESI
                 THEN Some(m[3] \o MESI[month_name] \o day_02d(m[1]))
                 ELSE None

---------------------------------------------------------------------------
(* Ordering of strings (SPARQL ORDER BY, list.sort on str keys)            *)

\* the characters sort keys are made of, in code point order
Ascii == " -0123456789ABCDEFGHIJKLMNOPQRSTUVWXYZ_abcdefghijklmnopqrstuvwxyz"

Code(c) == CHOOSE i \in 1..Len(Ascii) : Char(Ascii, i) = c

\* a < b, comparing from character i on
RECURSIVE str_less_from(_, _, _)
str_less_from(a, b, i) ==
    IF i > Len(b) THEN FALSE
    ELSE IF i > Len(a) THEN TRUE
    ELSE IF Char(a, i) = Char(b, i) THEN str_less_from(a, b, i + 1)
    ELSE Code(Char(a, i)) < Code(Char(b, i))

StrLess(a, b) == str_less_from(a, b, 1)

StrLeq(a, b) == a = b \/ StrLess(a, b)

\* the orders in which an ORDER BY on Key(_) may return the rows of `rows`
\* (rows with equal keys come in any order)
OrderedBy(rows, Key(_)) ==
    LET n == Cardinality(rows)
    IN  { f \in [1..n -> rows] :
            /\ \A i, j \in 1..n : i # j => f[i] # f[j]
            /\ \A i \in 1..(n - 1) : StrLeq(Key(f[i]), Key(f[i + 1])) }

---------------------------------------------------------------------------
(* The Camera endpoint: camera_search_by_dl_ref, camera_search_by_date     *)
(* (src/matching.py:85-129).  A row of `camera` is one solution of the     *)
(* graph pattern: an act of the legislature with one of its iter phases.   *)

\* the SELECT ?atto ?numero ?titolo ?fase ?dataIter projection as a binding
Bindings(r) ==
    [atto     |-> Binding("uri", r.atto),
     numero   |-> Binding("literal", r.numero),
     titolo   |-> Binding("literal", r.titolo),
     fase     |-> Binding("literal", r.fase),
     dataIter |-> Binding("literal", r.dataIter)]

BindingsOf(f) == [i \in DOMAIN f |-> Bindings(f[i])]

KeyDataIter(r) == r.dataIter

KeyNumero(r) == r.numero

\* the query of Source A with ORDER BY ?numero
camera_search_by_dl_ref_by_numero(cam, dl_numero) ==
    LET sel == { r \in cam :
                   /\ Contains(lower(r.titolo), "decreto-legge")
                   /\ Contains(r.titolo, "n. " \o dl_numero)
                   /\ Contains(lower(r.fase), "legge") }
    IN  { BindingsOf(f) : f \in OrderedBy(sel, KeyNumero) }

\* the result sets camera_search_by_dl_ref(dl_numero) may return
camera_search_by_dl_ref(cam, dl_numero) ==
    LET sel == { r \in cam :
                   /\ Contains(lower(r.titolo), "decreto-legge")
                   /\ Contains(r.titolo, "n. " \o dl_numero)
                   /\ Contains(lower(r.fase), "legge") }
    IN  { BindingsOf(f) : f \in OrderedBy(sel, KeyDataIter) }

\* the result sets camera_search_by_date(date_str) may return
camera_search_by_date(cam, date_str) ==
    LET sel == { r \in cam :
                   /\ Contains(lower(r.fase), "legge")
                   /\ r.dataIter = date_str }
    IN  { BindingsOf(f) : f \in OrderedBy(sel, KeyNumero) }

---------------------------------------------------------------------------
(* The data the model runs on                                              *)

\* acts of the Camera registry: atto URI, dc:identifier, dc:title
Acts ==
    { [atto |-> "U1", numero |-> "2643",
       titolo |-> "Conversione in legge del decreto-legge 3 ottobre 2025, n. 145"],
      [atto |-> "U2", numero |-> "2700",
       titolo |-> "&quot;Salva mare&quot;"],
      [atto |-> "U3", numero |-> "2701",
       titolo |-> "Tutela delle coste"],
      [atto |-> "U4", numero |-> "2300",
       titolo |-> "Conversione del decreto-legge 1 marzo 2025, n. 14"] }

\* iter phases: title and date
Fasi == { "Approvato definitivamente. Legge", "Assegnato" }

Date == { "20251105", "20251118" }

Row(a, fase, data) ==
    [atto |-> a.atto, numero |-> a.numero, titolo |-> a.titolo,
     fase |-> fase, dataIter |-> data]

RowUniverse == { Row(a, f, d) : a \in Acts, f \in Fasi, d \in Date }

\* Normattiva act details: titolo and sottoTitolo
Details ==
    { [titolo |-> "LEGGE 18 novembre 2025, n. 173",
       sottoTitolo |-> " Conversione in legge del decreto-legge 3 ottobre 2025, n. 145 "],
      [titolo |-> "LEGGE 18 novembre 2025, n. 174",
       sottoTitolo |-> "Tutela delle coste: &quot;Salva mare&quot;"],
      [titolo |-> "LEGGE 7 brumaio 2025, n. 9",
       sottoTitolo |-> "Conversione del decreto-legge 1 marzo 2025, n. 14"],
      [titolo |-> "LEGGE", sottoTitolo |-> ""] }

\* the sequences over S of length at most n
SeqsUpTo(S, n) == UNION { [1..k -> S] : k \in 0..n }

\* str.strip()
RECURSIVE strip(_)
strip(s) ==
    IF Len(s) > 0 /\ IsSpace(Char(s, 1)) THEN strip(SubSeq(s, 2, Len(s)))
    ELSE IF Len(s) > 0 /\ IsSpace(Char(s, Len(s))) THEN strip(SubSeq(s, 1, Len(s) - 1))
    ELSE s

---------------------------------------------------------------------------
(* classify_norm_type, CAMERA_TYPES (src/matching.py:38-40, 214-221)       *)

CAMERA_TYPES == { "LEGGE" }

\* the list with the shortest decree type tried before the longer ones
NORM_TYPES_short_first ==
    << "LEGGE", "DECRETO", "DECRETO LEGISLATIVO", "DECRETO-LEGGE",
       "DECRETO DEL PRESIDENTE DELLA REPUBBLICA",
       "DECRETO DEL PRESIDENTE DEL CONSIGLIO DEI MINISTRI" >>

NORM_TYPES ==
    << "LEGGE", "DECRETO LEGISLATIVO", "DECRETO-LEGGE",
       "DECRETO DEL PRESIDENTE DELLA REPUBBLICA",
       "DECRETO DEL PRESIDENTE DEL CONSIGLIO DEI MINISTRI", "DECRETO" >>

\* the for loop from the k-th type on
RECURSIVE classify_from(_, _)
classify_from(descrizione, k) ==
    IF k > Len(NORM_TYPES) THEN "ALTRO"
    ELSE IF StartsWithAt(descrizione, 1, NORM_TYPES[k]) THEN NORM_TYPES[k]
    ELSE classify_from(descrizione, k + 1)

classify_norm_type(descrizione) == classify_from(descrizione, 1)

---------------------------------------------------------------------------
(* main: the year and month asked for, the listing's records                *)

\* str(n) for n >= 0
RECURSIVE int_str(_)
int_str(n) ==
    IF n < 10 THEN Char(DigitChars, n + 1)
    ELSE int_str(n \div 10) \o Char(DigitChars, (n % 10) + 1)

\* f"{n:02d}" for n >= 0
fmt_02d(n) == IF n < 10 THEN "0" \o int_str(n) ELSE int_str(n)

\* the answers to the two prompts of main
Period == [anno |-> 2025, mese |-> 11]

\* f"{anno}-{mese:02d}"
month_prefix == int_str(Period.anno) \o "-" \o fmt_02d(Period.mese)

Norm(codice, data_gu, descrizione) ==
    [codiceRedazionale |-> codice, dataGU |-> data_gu, descrizioneAtto |-> descrizione]

N1 == Norm("25G00173", "2025-11-20", "LEGGE")

N2 == Norm("25G00174", "2025-11-19", "LEGGE")

N3 == Norm("25G00009", "2025-11-20", "LEGGE")

N4 == Norm("25G00160", "2025-11-10", "DECRETO-LEGGE")

N5 == Norm("25G00181", "2025-12-01", "LEGGE")

\* the pages the listing is made of
PagePool == { <<>>, <<N1>>, <<N2>>, <<N1, N2>>, <<N3, N4>>, <<N4, N5>> }

\* the detail the registry holds for each record of the listing
DetailOf ==
    [c \in { "25G00173", "25G00174", "25G00009", "25G00160", "25G00181" } |->
        CASE c = "25G00173" ->
               [titolo |-> "LEGGE 18 novembre 2025, n. 173",
                sottoTitolo |-> " Conversione in legge del decreto-legge 3 ottobre 2025, n. 145 "]
          [] c = "25G00174" ->
               [titolo |-> "LEGGE 18 novembre 2025, n. 174",
                sottoTitolo |-> "Tutela delle coste: &quot;Salva mare&quot;"]
          [] c = "25G00009" ->
               [titolo |-> "LEGGE 7 brumaio 2025, n. 9",
                sottoTitolo |-> "Conversione del decreto-legge 1 marzo 2025, n. 14"]
          [] OTHER ->
               [titolo |-> "LEGGE", sottoTitolo |-> ""]]

ActOf(uri) == CHOOSE a \in Acts : a.atto = uri

Legge == "Approvato definitivamente. Legge"

\* the Camera registries the batch runs against
BatchCameras ==
    { {},
      { Row(ActOf("U1"), Legge, "20251105"), Row(ActOf("U1"), Legge, "20251118"),
        Row(ActOf("U2"), Legge, "20251118"), Row(ActOf("U3"), Legge, "20251118") },
      { Row(ActOf("U1"), Legge, "20251105"), Row(ActOf("U4"), Legge, "20251118") },
      { Row(ActOf("U1"), Legge, "20251118"), Row(ActOf("U4"), Legge, "20251118") } }

\* the records of a listing, page after page
RECURSIVE Flat(_)
Flat(pages) == IF pages = <<>> THEN <<>> ELSE Head(pages) \o Flat(Tail(pages))

NoRepeat(seq) == \A i, j \in 1..Len(seq) : i # j => seq[i] # seq[j]

---------------------------------------------------------------------------
(* fetch_norms (src/matching.py:224-247)                                   *)

\* r.json().get("listaAtti", []) for the request of page p
PageOf(pages, p) == IF p \in 1..Len(pages) THEN pages[p] ELSE <<>>

\* the loop also stops on a page of a single record
FetchPageShortStop ==
    /\ pc = "fetch"
    /\ requested' = Append(requested, pagina)
    /\ LET batch == PageOf(listing, pagina)
       IN  IF Len(batch) <= 1
           THEN /\ atti' = atti \o batch
                /\ pc' = "filter"
                /\ UNCHANGED pagina
           ELSE /\ atti' = atti \o batch
                /\ pagina' = pagina + 1
                /\ pc' = "fetch"
    /\ UNCHANGED <<unitVars, registryVars, matchVars, mainVars>>

\* one turn of the while loop: post the request, stop on an empty batch
FetchPage ==
    /\ pc = "fetch"
    /\ requested' = Append(requested, pagina)
    /\ LET batch == PageOf(listing, pagina)
       IN  IF batch = <<>>
           THEN /\ pc' = "filter"
                /\ UNCHANGED <<pagina, atti>>
           ELSE /\ atti' = atti \o batch
                /\ pagina' = pagina + 1
                /\ pc' = "fetch"
    /\ UNCHANGED <<unitVars, registryVars, matchVars, mainVars>>

\* the exception is caught and ends the loop
FetchFailsCaught ==
    /\ pc = "fetch"
    /\ requested' = Append(requested, pagina)
    /\ failure' = "listing"
    /\ pc' = "filter"
    /\ UNCHANGED <<unitVars, registryVars, pagina, atti, matchVars, targets, results,
                   summary, report>>

\* requests.post or r.raise_for_status() raises: nothing catches it
FetchFails ==
    /\ pc = "fetch"
    /\ requested' = Append(requested, pagina)
    /\ failure' = "listing"
    /\ pc' = "aborted"
    /\ UNCHANGED <<unitVars, registryVars, pagina, atti, matchVars, targets, results,
                   summary, report>>

---------------------------------------------------------------------------
(* main: the filter and the sort of the targets (src/matching.py:259-265)  *)

\* seq with x put after the last element whose dataGU is <= x's
RECURSIVE insert_by_dataGU(_, _)
insert_by_dataGU(seq, x) ==
    IF seq = <<>> THEN <<x>>
    ELSE IF StrLess(x.dataGU, Head(seq).dataGU) THEN <<x>> \o seq
    ELSE <<Head(seq)>> \o insert_by_dataGU(Tail(seq), x)

\* the list left as the listing returned it
sort_skipped(seq) == seq

\* list.sort(key=lambda a: a.get("dataGU", "")): stable
RECURSIVE sort_by_dataGU(_)
sort_by_dataGU(seq) ==
    IF seq = <<>> THEN <<>>
    ELSE insert_by_dataGU(sort_by_dataGU(SubSeq(seq, 1, Len(seq) - 1)), seq[Len(seq)])

\* every record of the month, whatever its type
IsTarget_any_type(a) == StartsWithAt(a.dataGU, 1, month_prefix)

\* a.get("dataGU", "").startswith(month_prefix) and classify_norm_type(...) in CAMERA_TYPES
IsTarget(a) ==
    /\ StartsWithAt(a.dataGU, 1, month_prefix)
    /\ classify_norm_type(a.descrizioneAtto) \in CAMERA_TYPES

FilterTargets ==
    /\ pc = "filter"
    /\ targets' = sort_by_dataGU(Filter(atti, IsTarget))
    /\ pc' = "match"
    /\ UNCHANGED <<unitVars, registryVars, fetchVars, matchVars, results, failure,
                   summary, report>>

---------------------------------------------------------------------------
(* match_norm (src/matching.py:169-211), called for targets[len(results)]  *)

\* the record the loop of main is at
CurrentNorm == targets[Len(results) + 1]

\* get_normattiva_detail and the reading of titolo and sottoTitolo
Detail ==
    /\ pc = "match"
    /\ Len(results) < Len(targets)
    /\ LET atto == normattiva[CurrentNorm.codiceRedazionale]
       IN  /\ titolo' = atto.titolo
           /\ sotto_titolo' = strip(atto.sottoTitolo)
    /\ dl_ref' = None /\ law_date' = None
    /\ raw_a' = <<>> /\ raw_b' = <<>> /\ hits_a' = <<>> /\ hits_b' = <<>>
    /\ candidates' = <<>> /\ matched' = <<>> /\ confidence' = "" /\ again' = <<>> /\ scored' = <<>> /\ queried' = <<>>
    /\ pc' = "extract"
    /\ UNCHANGED <<unitVars, registryVars, fetchVars, mainVars>>

\* an exception raised in match_norm leaves match_norm and main
Raise(what) ==
    /\ failure' = what
    /\ pc' = "aborted"
    /\ UNCHANGED <<unitVars, registryVars, fetchVars, matchVars, targets, results,
                   summary, report>>

\* an exception raised by a query that was posted
RaiseAfterQuery(what) ==
    /\ failure' = what
    /\ pc' = "aborted"
    /\ UNCHANGED <<unitVars, registryVars, fetchVars, targets, results,
                   summary, report, titolo, sotto_titolo, dl_ref, law_date,
                   raw_a, raw_b, hits_a, hits_b, candidates, matched,
                   confidence, again, scored>>

\* one request to the Camera endpoint: the strategy and the value it filters by
Query(source, value) == [source |-> source, value |-> value]

\* dl_ref["numero"] is read whether or not a reference was extracted
SearchAUnguarded ==
    /\ pc = "search_a"
    /\ IF dl_ref # None
       THEN /\ queried' = Append(queried, Query("A", dl_ref[1].numero))
            /\ \E r \in camera_search_by_dl_ref(camera, dl_ref[1].numero) :
                  /\ raw_a' = r
                  /\ hits_a' = flatten_hits(r)
            /\ pc' = "search_b"
            /\ UNCHANGED failure
       ELSE /\ failure' = "query_a"
            /\ pc' = "aborted"
            /\ UNCHANGED <<raw_a, hits_a, queried>>
    /\ UNCHANGED <<unitVars, registryVars, fetchVars, targets, results,
                   summary, report, again, scored, titolo, sotto_titolo,
                   dl_ref, law_date, raw_b, hits_b, candidates, matched, confidence>>

DetailFails ==
    /\ pc = "match"
    /\ Len(results) < Len(targets)
    /\ Raise("detail")

Extract ==
    /\ pc = "extract"
    /\ dl_ref' = extract_decreto_legge_ref(sotto_titolo)
    /\ law_date' = extract_law_date(titolo)
    /\ pc' = "search_a"
    /\ UNCHANGED <<unitVars, registryVars, fetchVars, mainVars, again, scored, queried,
                   titolo, sotto_titolo,
                   raw_a, raw_b, hits_a, hits_b, candidates, matched, confidence>>

\* hits_a = flatten_hits(camera_search_by_dl_ref(dl_ref["numero"])) if dl_ref else []
SearchA ==
    /\ pc = "search_a"
    /\ IF dl_ref # None
       THEN /\ queried' = Append(queried, Query("A", dl_ref[1].numero))
            /\ \E r \in camera_search_by_dl_ref(camera, dl_ref[1].numero) :
                  /\ raw_a' = r
                  /\ hits_a' = flatten_hits(r)
       ELSE /\ raw_a' = <<>>
            /\ hits_a' = <<>>
            /\ UNCHANGED queried
    /\ pc' = "search_b"
    /\ UNCHANGED <<unitVars, registryVars, fetchVars, mainVars, again, scored,
                   titolo, sotto_titolo,
                   dl_ref, law_date, raw_b, hits_b, candidates, matched, confidence>>

\* the query is posted and the endpoint or the network fails
SearchAFails ==
    /\ pc = "search_a"
    /\ dl_ref # None
    /\ queried' = Append(queried, Query("A", dl_ref[1].numero))
    /\ RaiseAfterQuery("query_a")

\* hits_b = flatten_hits(camera_search_by_date(law_date)) if law_date else []
SearchB ==
    /\ pc = "search_b"
    /\ IF law_date # None
       THEN /\ queried' = Append(queried, Query("B", law_date[1]))
            /\ \E r \in camera_search_by_date(camera, law_date[1]) :
                  /\ raw_b' = r
                  /\ hits_b' = flatten_hits(r)
       ELSE /\ raw_b' = <<>>
            /\ hits_b' = <<>>
            /\ UNCHANGED queried
    /\ pc' = "combine"
    /\ UNCHANGED <<unitVars, registryVars, fetchVars, mainVars, again, scored,
                   titolo, sotto_titolo,
                   dl_ref, law_date, raw_a, hits_a, candidates, matched, confidence>>

\* the query is posted and the endpoint or the network fails
SearchBFails ==
    /\ pc = "search_b"
    /\ law_date # None
    /\ queried' = Append(queried, Query("B", law_date[1]))
    /\ RaiseAfterQuery("query_b")

Combine ==
    /\ pc = "combine"
    /\ candidates' = combine(hits_a, hits_b)
    /\ pc' = "refine"
    /\ UNCHANGED <<unitVars, registryVars, fetchVars, mainVars, again, scored, queried,
                   titolo, sotto_titolo,
                   dl_ref, law_date, raw_a, raw_b, hits_a, hits_b, matched,
                   confidence>>

\* the combined list is kept as it is
RefineSkipped ==
    /\ pc = "refine"
    /\ matched' = candidates
    /\ scored' = <<>>
    /\ pc' = "classify"
    /\ UNCHANGED <<unitVars, registryVars, fetchVars, mainVars, again, queried,
                   titolo, sotto_titolo,
                   dl_ref, law_date, raw_a, raw_b, hits_a, hits_b, candidates,
                   confidence>>

\* the refinement narrows the list it is given in place: when matched is
\* hits_a or hits_b itself, that hit list is narrowed with it
RefineInPlace ==
    /\ pc = "refine"
    /\ matched' = IF Len(candidates) > 1
                  THEN refine_by_keywords(sotto_titolo, candidates)
                  ELSE candidates
    /\ scored' = IF Len(candidates) > 1
                 THEN scored_pairs(sotto_titolo, candidates)
                 ELSE <<>>
    /\ hits_a' = IF hits_a # <<>> /\ hits_b = <<>> THEN matched' ELSE hits_a
    /\ hits_b' = IF hits_a = <<>> THEN matched' ELSE hits_b
    /\ pc' = "classify"
    /\ UNCHANGED <<unitVars, registryVars, fetchVars, mainVars, again, queried,
                   titolo, sotto_titolo,
                   dl_ref, law_date, raw_a, raw_b, candidates,
                   confidence>>

\* if len(matched) > 1: matched = refine_by_keywords(sotto_titolo, matched)
Refine ==
    /\ pc = "refine"
    /\ matched' = IF Len(candidates) > 1
                  THEN refine_by_keywords(sotto_titolo, candidates)
                  ELSE candidates
    /\ scored' = IF Len(candidates) > 1
                 THEN scored_pairs(sotto_titolo, candidates)
                 ELSE <<>>
    /\ pc' = "classify"
    /\ UNCHANGED <<unitVars, registryVars, fetchVars, mainVars, again, queried,
                   titolo, sotto_titolo,
                   dl_ref, law_date, raw_a, raw_b, hits_a, hits_b, candidates,
                   confidence>>

Classify ==
    /\ pc = "classify"
    /\ confidence' = classify(matched)
    /\ pc' = "return"
    /\ UNCHANGED <<unitVars, registryVars, fetchVars, mainVars, again, scored, queried,
                   titolo, sotto_titolo,
                   dl_ref, law_date, raw_a, raw_b, hits_a, hits_b, candidates,
                   matched>>

\* the dict match_norm returns
MatchResult ==
    [codice |-> CurrentNorm.codiceRedazionale, dataGU |-> CurrentNorm.dataGU,
     titolo |-> titolo, dl_ref |-> dl_ref, law_date |-> law_date,
     strategy_a |-> hits_a, strategy_b |-> hits_b,
     matched |-> matched, confidence |-> confidence]

\* return {...}; results.append(result)
Return ==
    /\ pc = "return"
    /\ results' = Append(results, MatchResult)
    /\ pc' = "match"
    /\ UNCHANGED <<unitVars, registryVars, fetchVars, matchVars, targets, failure,
                   summary, report>>

---------------------------------------------------------------------------
(* main: the tally and the saved file (src/matching.py:295-315)            *)

\* only the results that hold a candidate are counted
Count_with_match(label) ==
    Cardinality({ k \in 1..Len(results) :
                    results[k].confidence = label /\ results[k].matched # <<>> })

\* sum(1 for r in results if r["confidence"] == label)
Count(label) == Cardinality({ k \in 1..Len(results) : results[k].confidence = label })

Summary ==
    /\ pc = "match"
    /\ Len(results) = Len(targets)
    /\ summary' = Some([exact |-> Count("exact"), ambiguous |-> Count("ambiguous"),
                        no_match |-> Count("no_match")])
    /\ pc' = "save"
    /\ UNCHANGED <<unitVars, registryVars, fetchVars, matchVars, targets, results,
                   failure, report>>

Save ==
    /\ pc = "save"
    /\ report' = Some(results)
    /\ pc' = "done"
    /\ UNCHANGED <<unitVars, registryVars, fetchVars, matchVars, targets, results,
                   failure, summary>>

---------------------------------------------------------------------------
(* The batch run of main (src/matching.py:250-315)                         *)

\* pages the listing may have before the registry only answers empty pages
MaxPages == 2

FetchStart == pagina = 1 /\ requested = <<>> /\ atti = <<>>

MatchLocalsFresh ==
    /\ titolo = "" /\ sotto_titolo = "" /\ dl_ref = None /\ law_date = None
    /\ raw_a = <<>> /\ raw_b = <<>> /\ hits_a = <<>> /\ hits_b = <<>>
    /\ candidates = <<>> /\ matched = <<>> /\ confidence = "" /\ again = <<>> /\ scored = <<>> /\ queried = <<>>

MainStart ==
    targets = <<>> /\ results = <<>> /\ failure = "" /\ summary = None /\ report = None

NoRegistry == normattiva = <<>> /\ camera = {} /\ listing = <<>>

\* no function has been called on its own
CallIdle == call_arg = "" /\ call_out = <<>>

\* merge is not called
MergeIdle ==
    norme = <<>> /\ camera_rows = <<>> /\ merged = <<>> /\ merge_stats = <<>>

\* fetch_all_articles is not called
ArticlesIdle ==
    /\ art_server = <<>> /\ art_id = 1 /\ art_posted = <<>>
    /\ articles = <<>> /\ metadata = <<>> /\ art_result = <<>>

UnitIdle == CallIdle /\ MergeIdle /\ ArticlesIdle

Init ==
    /\ pc = "fetch"
    /\ normattiva = DetailOf
    /\ camera \in BatchCameras
    /\ listing \in { l \in SeqsUpTo(PagePool, MaxPages) : NoRepeat(Flat(l)) }
    /\ FetchStart
    /\ MatchLocalsFresh
    /\ MainStart
    /\ UnitIdle

Next ==
    \/ FetchPage
    \/ FetchFails
    \/ FilterTargets
    \/ Detail
    \/ DetailFails
    \/ Extract
    \/ SearchA
    \/ SearchAFails
    \/ SearchB
    \/ SearchBFails
    \/ Combine
    \/ Refine
    \/ Classify
    \/ Return
    \/ Summary
    \/ Save

Spec == Init /\ [][Next]_vars

\* a request that was posted returns or raises
FairSpec == Spec /\ WF_vars(FetchPage \/ FetchFails)

---------------------------------------------------------------------------
(* match_norm on one record, against every small Camera registry           *)

\* rows the Camera registry may hold
MaxRows == 3

MatchInit ==
    /\ pc = "match"
    /\ \E d \in Details : normattiva = [c \in {N1.codiceRedazionale} |-> d]
    /\ camera \in { c \in SUBSET RowUniverse : Cardinality(c) <= MaxRows }
    /\ listing = << <<N1>> >>
    /\ pagina = 2 /\ requested = <<1, 2>> /\ atti = <<N1>>
    /\ MatchLocalsFresh
    /\ targets = <<N1>> /\ results = <<>> /\ failure = ""
    /\ summary = None /\ report = None
    /\ UnitIdle

MatchNext ==
    \/ Detail
    \/ DetailFails
    \/ Extract
    \/ SearchA
    \/ SearchAFails
    \/ SearchB
    \/ SearchBFails
    \/ Combine
    \/ Refine
    \/ Classify
    \/ Return

SpecMatch == MatchInit /\ [][MatchNext]_vars

---------------------------------------------------------------------------
(* flatten_hits and the deduplication of camera_search_by_numero           *)
(* (src/sandbox/matching_v2.py:103-110) on every short list of bindings    *)

\* rows a query result may have
MaxRaw == 3

FlattenPool ==
    { Bindings(Row(a, f, d)) : a \in Acts \ {ActOf("U4")}, f \in Fasi, d \in Date }

\* SELECT DISTINCT ?atto ?numero ?titolo: an act with two titles has two rows
NumeroPool ==
    { [atto |-> Binding("uri", a.atto), numero |-> Binding("literal", a.numero),
       titolo |-> Binding("literal", t)] :
        a \in { ActOf("U2"), ActOf("U3") }, t \in { "Salva mare", "Tutela delle coste" } }

\* the loop of camera_search_by_numero over its bindings
dedup_by_atto(bindings) == flatten_from(bindings, 1, {})

Flatten ==
    /\ pc = "flatten"
    /\ hits_a' = flatten_hits(raw_a)
    /\ pc' = "flattened"
    /\ UNCHANGED <<unitVars, registryVars, fetchVars, mainVars, again, scored, queried,
                   titolo, sotto_titolo,
                   dl_ref, law_date, raw_a, raw_b, hits_b, candidates, matched,
                   confidence>>

DedupNumero ==
    /\ pc = "dedup"
    /\ hits_b' = dedup_by_atto(raw_b)
    /\ pc' = "deduped"
    /\ UNCHANGED <<unitVars, registryVars, fetchVars, mainVars, again, scored, queried,
                   titolo, sotto_titolo,
                   dl_ref, law_date, raw_a, raw_b, hits_a, candidates, matched,
                   confidence>>

NormalizeInit ==
    /\ \/ pc = "flatten" /\ raw_a \in SeqsUpTo(FlattenPool, MaxRaw) /\ raw_b = <<>>
       \/ pc = "dedup" /\ raw_a = <<>> /\ raw_b \in SeqsUpTo(NumeroPool, MaxRaw)
    /\ NoRegistry /\ FetchStart /\ MainStart /\ UnitIdle
    /\ titolo = "" /\ sotto_titolo = "" /\ dl_ref = None /\ law_date = None
    /\ hits_a = <<>> /\ hits_b = <<>>
    /\ candidates = <<>> /\ matched = <<>> /\ confidence = "" /\ again = <<>> /\ scored = <<>> /\ queried = <<>>

NormalizeNext == Flatten \/ DedupNumero

SpecNormalize == NormalizeInit /\ [][NormalizeNext]_vars

---------------------------------------------------------------------------
(* The combination step on every pair of short hit lists                   *)

\* candidates a hit list may have
MaxHits == 2

\* a flattened hit
Hit(r) == project(Bindings(r))

HitPool == { Hit(Row(a, Legge, d)) : a \in Acts, d \in Date }

\* hit lists as flatten_hits leaves them: no atto twice
HitLists ==
    { h \in SeqsUpTo(HitPool, MaxHits) :
        \A i, j \in 1..Len(h) : i # j => h[i].atto # h[j].atto }

CombineInit ==
    /\ pc = "combine"
    /\ hits_a \in HitLists
    /\ hits_b \in HitLists
    /\ NoRegistry /\ FetchStart /\ MainStart /\ UnitIdle
    /\ titolo = "" /\ sotto_titolo = "" /\ dl_ref = None /\ law_date = None
    /\ raw_a = <<>> /\ raw_b = <<>>
    /\ candidates = <<>> /\ matched = <<>> /\ confidence = "" /\ again = <<>> /\ scored = <<>> /\ queried = <<>>

SpecCombine == CombineInit /\ [][Combine]_vars

---------------------------------------------------------------------------
(* refine_by_keywords on every short candidate list                        *)

\* candidates handed to refine_by_keywords
MaxCands == 3

RefinePool ==
    { Hit(Row(a, Legge, "20251118")) : a \in Acts }
      \cup { [atto |-> "U5", numero |-> "2702",
              titolo |-> "Norme per la TUTELA  delle coste",
              fase |-> Legge, dataIter |-> "20251118"] }

RefineOnce ==
    /\ pc = "refine_once"
    /\ matched' = refine_by_keywords(sotto_titolo, candidates)
    /\ scored' = scored_pairs(sotto_titolo, candidates)
    /\ pc' = "refined"
    /\ UNCHANGED <<unitVars, registryVars, fetchVars, mainVars, again, queried,
                   titolo, sotto_titolo,
                   dl_ref, law_date, raw_a, raw_b, hits_a, hits_b, candidates,
                   confidence>>

RefineAgain ==
    /\ pc = "refined"
    /\ again' = refine_by_keywords(sotto_titolo, matched)
    /\ scored' = scored_pairs(sotto_titolo, matched)
    /\ pc' = "refined_twice"
    /\ UNCHANGED <<unitVars, registryVars, fetchVars, mainVars, queried, titolo,
                   sotto_titolo,
                   dl_ref, law_date, raw_a, raw_b, hits_a, hits_b, candidates,
                   matched, confidence>>

RefineInit ==
    /\ pc = "refine_once"
    /\ \E d \in Details : sotto_titolo = strip(d.sottoTitolo)
    /\ candidates \in SeqsUpTo(RefinePool, MaxCands)
    /\ NoRegistry /\ FetchStart /\ MainStart /\ UnitIdle
    /\ titolo = "" /\ dl_ref = None /\ law_date = None
    /\ raw_a = <<>> /\ raw_b = <<>> /\ hits_a = <<>> /\ hits_b = <<>>
    /\ matched = <<>> /\ confidence = "" /\ again = <<>> /\ scored = <<>> /\ queried = <<>>

RefineNext == RefineOnce \/ RefineAgain

SpecRefine == RefineInit /\ [][RefineNext]_vars

---------------------------------------------------------------------------
(* classify_norm_type on one description                                   *)

\* what follows the type in a description
DescTails == { "", " 18 novembre 2025, n. 173", "-LEGGE 3 ottobre 2025", "S" }

\* descriptions: every listed type, whole or cut short, and what follows it
DescPool ==
    UNION { { SubSeq(NORM_TYPES[k], 1, n) \o s :
                n \in 0..Len(NORM_TYPES[k]), s \in DescTails } :
            k \in 1..Len(NORM_TYPES) }

ClassifyType ==
    /\ pc = "classify_type"
    /\ call_out' = Some(classify_norm_type(call_arg))
    /\ pc' = "classified"
    /\ UNCHANGED <<call_arg, mergeVars, articleVars,
                   registryVars, fetchVars, matchVars, mainVars>>

ClassifyTypeInit ==
    /\ pc = "classify_type"
    /\ call_arg \in DescPool /\ call_out = None
    /\ MergeIdle /\ ArticlesIdle
    /\ NoRegistry /\ FetchStart /\ MatchLocalsFresh /\ MainStart

SpecClassifyType == ClassifyTypeInit /\ [][ClassifyType]_vars

---------------------------------------------------------------------------
(* extract_law_date on one title                                           *)

\* what precedes the date in a title
TitleHeads == { "", "LEGGE ", "Legge n. 173 del ", "LEGGE 5 bis 2024, ",
                "LEGGE 1 marzo 2024 e ", "art. 2\t" }

TitleDays == { "1", "18", "07", "123" }

TitleGaps == { " ", "  " }

TitleMonths ==
    { "gennaio", "febbraio", "marzo", "aprile", "maggio", "giugno", "luglio",
      "agosto", "settembre", "ottobre", "novembre", "dicembre",
      "Novembre", "MARZO", "brumaio", "nov", "11" }

TitleYears == { "2025", "20256", "202" }

TitleTails == { "", ", n. 173" }

\* titles: a head, then a day, a month and a year, then a tail; and titles
\* with no date in them
TitlePool ==
    { h \o d \o g \o m \o " " \o y \o t :
        h \in TitleHeads, d \in TitleDays, g \in TitleGaps, m \in TitleMonths,
        y \in TitleYears, t \in TitleTails }
    \cup { "", "LEGGE", "LEGGE 2025", "LEGGE 18 novembre" }

ExtractDate ==
    /\ pc = "extract_date"
    /\ call_out' = extract_law_date(call_arg)
    /\ pc' = "date_extracted"
    /\ UNCHANGED <<call_arg, mergeVars, articleVars,
                   registryVars, fetchVars, matchVars, mainVars>>

ExtractDateInit ==
    /\ pc = "extract_date"
    /\ call_arg \in TitlePool /\ call_out = None
    /\ MergeIdle /\ ArticlesIdle
    /\ NoRegistry /\ FetchStart /\ MatchLocalsFresh /\ MainStart

SpecExtractDate == ExtractDateInit /\ [][ExtractDate]_vars

---------------------------------------------------------------------------
(* extract_decreto_legge_ref on one text                                   *)

RefHeads == { "", "Conversione in legge, con modificazioni, del " }

RefWords == { "decreto-legge", "Decreto-Legge", "DECRETO-LEGGE", "decreto legge" }

RefGaps == { " ", "  ", "" }

RefDates == { "3 ottobre 2025", "03  ottobre\t2025", "3 ottobre 20256",
              "3 10 2025", "ottobre 2025", "3 ottobre 202" }

RefMarks == { ", n. ", ",n.", " n. ", ", N. ", ", n " }

RefNumbers == { "145", "7", "" }

RefTails == { "", ", recante misure urgenti",
              " e del decreto-legge 1 marzo 2025, n. 14" }

\* texts: the phrase of a decree reference, whole, varied or broken at each of
\* its parts, and texts with no reference in them
RefPool ==
    { h \o w \o g \o d \o m \o n \o t :
        h \in RefHeads, w \in RefWords, g \in RefGaps, d \in RefDates,
        m \in RefMarks, n \in RefNumbers, t \in RefTails }
    \cup { "", "Tutela delle coste", "decreto-legge" }

ExtractRef ==
    /\ pc = "extract_ref"
    /\ call_out' = extract_decreto_legge_ref(call_arg)
    /\ pc' = "ref_extracted"
    /\ UNCHANGED <<call_arg, mergeVars, articleVars,
                   registryVars, fetchVars, matchVars, mainVars>>

ExtractRefInit ==
    /\ pc = "extract_ref"
    /\ call_arg \in RefPool /\ call_out = None
    /\ MergeIdle /\ ArticlesIdle
    /\ NoRegistry /\ FetchStart /\ MatchLocalsFresh /\ MainStart

SpecExtractRef == ExtractRefInit /\ [][ExtractRef]_vars

---------------------------------------------------------------------------
(* merge, norm_uri (src/merge.py:42-88)                                    *)

\* str.replace(old, new) from position i on: every occurrence, left to right
RECURSIVE replace_from(_, _, _, _)
replace_from(s, old, new, i) ==
    IF i > Len(s) THEN ""
    ELSE IF StartsWithAt(s, i, old) THEN new \o replace_from(s, old, new, i + Len(old))
    ELSE Char(s, i) \o replace_from(s, old, new, i + 1)

\* uri.replace("http://", "https://").strip() if uri else ""
norm_uri(uri) ==
    IF uri # "" THEN strip(replace_from(uri, "http://", "https://", 1)) ELSE ""

\* the first loop of merge from row i on: camera_by_uri, a later row of a
\* key replacing an earlier one
RECURSIVE index_camera(_, _, _)
index_camera(cam, i, by_uri) ==
    IF i > Len(cam) THEN by_uri
    ELSE LET key == norm_uri(cam[i].normattiva_uri)
         IN  IF key # ""
             THEN index_camera(cam, i + 1,
                               [ k \in DOMAIN by_uri \cup {key} |->
                                   IF k = key THEN cam[i] ELSE by_uri[k] ])
             ELSE index_camera(cam, i + 1, by_uri)

MergedRow(n, c, s) == [normattiva_uri |-> n, camera_uri |-> c, senato_uri |-> s]

\* the row appended for the norm n
left_row(n, by_uri) ==
    LET key == norm_uri(n.normattiva_uri)
    IN  IF key \in DOMAIN by_uri
        THEN MergedRow(n.normattiva_uri, by_uri[key].atto, by_uri[key].senato_uri)
        ELSE MergedRow(n.normattiva_uri, "", "")

\* matched_keys after the second loop
matched_keys(norms, by_uri) ==
    { norm_uri(norms[i].normattiva_uri) : i \in 1..Len(norms) }
        \cap { k \in DOMAIN by_uri : k # "" }

\* the third loop of merge from row i on
RECURSIVE right_only(_, _, _)
right_only(cam, i, keys) ==
    IF i > Len(cam) THEN <<>>
    ELSE LET key == norm_uri(cam[i].normattiva_uri)
         IN  IF key \in keys \/ key = ""
             THEN right_only(cam, i + 1, keys)
             ELSE <<MergedRow(cam[i].normattiva_uri, cam[i].atto, cam[i].senato_uri)>>
                      \o right_only(cam, i + 1, keys)

merge(norms, cam) ==
    LET camera_by_uri == index_camera(cam, 1, <<>>)
    IN  [ i \in 1..Len(norms) |-> left_row(norms[i], camera_by_uri) ]
            \o right_only(cam, 1, matched_keys(norms, camera_by_uri))

\* rows of the Normattiva CSV
NormRow(uri) == [normattiva_uri |-> uri]

NormRowPool ==
    { NormRow(u) : u \in { "https://n/1", "http://n/1", " https://n/2", "", "https://n/3" } }

\* rows of the Camera CSV
CameraRow(uri, atto, senato) ==
    [normattiva_uri |-> uri, atto |-> atto, senato_uri |-> senato]

CameraRowPool ==
    { CameraRow("http://n/1", "A1", "S1"), CameraRow("https://n/1", "A2", ""),
      CameraRow("https://n/2 ", "A3", "S3"), CameraRow("", "A4", "S4"),
      CameraRow("https://n/9", "A5", "") }

\* rows in the Normattiva CSV
MaxNorme == 2

\* rows in the Camera CSV
MaxCameraRows == 2

Merge ==
    /\ pc = "merge"
    /\ merged' = merge(norme, camera_rows)
    /\ pc' = "merged"
    /\ UNCHANGED <<norme, camera_rows, merge_stats, callVars, articleVars,
                   registryVars, fetchVars, matchVars, mainVars>>

\* sum(1 for r in merged if r["normattiva_uri"] and r["camera_uri"])
n_matched(rows) ==
    Cardinality({ k \in 1..Len(rows) :
                    rows[k].normattiva_uri # "" /\ rows[k].camera_uri # "" })

\* sum(1 for r in merged if r["normattiva_uri"] and not r["camera_uri"])
n_norm_only(rows) ==
    Cardinality({ k \in 1..Len(rows) :
                    rows[k].normattiva_uri # "" /\ rows[k].camera_uri = "" })

\* sum(1 for r in merged if not r["normattiva_uri"] and r["camera_uri"])
n_cam_only(rows) ==
    Cardinality({ k \in 1..Len(rows) :
                    rows[k].normattiva_uri = "" /\ rows[k].camera_uri # "" })

\* the counts of the summary main prints after merge
MergeStats ==
    /\ pc = "merged"
    /\ merge_stats' = Some([matched   |-> n_matched(merged),
                            norm_only |-> n_norm_only(merged),
                            cam_only  |-> n_cam_only(merged),
                            total     |-> Len(merged)])
    /\ pc' = "merge_summary"
    /\ UNCHANGED <<norme, camera_rows, merged, callVars, articleVars,
                   registryVars, fetchVars, matchVars, mainVars>>

MergeInit ==
    /\ pc = "merge"
    /\ norme \in SeqsUpTo(NormRowPool, MaxNorme)
    /\ camera_rows \in SeqsUpTo(CameraRowPool, MaxCameraRows)
    /\ merged = <<>> /\ merge_stats = <<>>
    /\ CallIdle /\ ArticlesIdle
    /\ NoRegistry /\ FetchStart /\ MatchLocalsFresh /\ MainStart

MergeNext == Merge \/ MergeStats

SpecMerge == MergeInit /\ [][MergeNext]_vars

---------------------------------------------------------------------------
(* fetch_all_articles (src/download_norm.py:103-127)                       *)

\* range(1, 10000): the first idArticolo that is not requested
range_stop == 10000

\* one answer of dettaglio-atto: the status and data.atto of the body
Response(status, atto) == [status |-> status, atto |-> atto]

Atto1 == [titolo |-> "LEGGE 7 gennaio 2026, n. 1", articoloHtml |-> "<p>Art. 1</p>"]

AttoPool ==
    { Atto1,
      [titolo |-> "LEGGE 7 gennaio 2026, n. 1", articoloHtml |-> "<p>Art. 2</p>"],
      [titolo |-> "senza testo"],
      <<>> }

ResponsePool ==
    { Response(200, a) : a \in AttoPool }
        \cup { Response(404, <<>>), Response(500, <<>>), Response(403, <<>>) }

\* articles the server holds before it only answers 404
MaxArticles == 3

\* the servers: one answer per idArticolo and 404 for every later one, and
\* the server that answers every idArticolo with an article
ArticleServers ==
    { [answers |-> a, rest |-> Response(404, <<>>)] :
        a \in SeqsUpTo(ResponsePool, MaxArticles) }
        \cup { [answers |-> <<>>, rest |-> Response(200, Atto1)] }

\* the answer to the request for idArticolo id
AnswerTo(server, id) ==
    IF id <= Len(server.answers) THEN server.answers[id] ELSE server.rest

\* resp.raise_for_status() raises
IsHttpError(status) == status >= 400 /\ status < 600

\* atto.get("articoloHtml", "")
articolo_html(atto) ==
    IF "articoloHtml" \in DOMAIN atto THEN atto.articoloHtml ELSE ""

\* return metadata or {}, articles
ArticlesReturn ==
    Some(<< IF metadata = None THEN <<>> ELSE metadata[1], articles >>)

\* a turn of the loop whose request is answered with an article
ArticleFetched ==
    /\ pc = "articles"
    /\ art_id < range_stop
    /\ LET resp == AnswerTo(art_server, art_id)
       IN  /\ resp.status # 404
           /\ ~IsHttpError(resp.status)
           /\ metadata' = IF metadata = None THEN Some(resp.atto) ELSE metadata
           /\ articles' = Append(articles, articolo_html(resp.atto))
    /\ art_posted' = Append(art_posted, art_id)
    /\ art_id' = art_id + 1
    /\ UNCHANGED <<pc, art_server, art_result, callVars, mergeVars,
                   registryVars, fetchVars, matchVars, mainVars>>

\* the 404 is taken for an error like the others
ArticleMissingRaises ==
    /\ pc = "articles"
    /\ art_id < range_stop
    /\ AnswerTo(art_server, art_id).status = 404
    /\ art_posted' = Append(art_posted, art_id)
    /\ failure' = "article"
    /\ pc' = "aborted"
    /\ UNCHANGED <<art_server, art_id, articles, metadata, art_result,
                   callVars, mergeVars, registryVars, fetchVars, matchVars,
                   targets, results, summary, report>>

\* if resp.status_code == 404: break, and the return after the loop
ArticleMissing ==
    /\ pc = "articles"
    /\ art_id < range_stop
    /\ AnswerTo(art_server, art_id).status = 404
    /\ art_posted' = Append(art_posted, art_id)
    /\ art_result' = ArticlesReturn
    /\ pc' = "articles_returned"
    /\ UNCHANGED <<art_server, art_id, articles, metadata, callVars, mergeVars,
                   registryVars, fetchVars, matchVars, mainVars>>

\* resp.raise_for_status() raises: nothing in fetch_all_articles catches it
ArticleFails ==
    /\ pc = "articles"
    /\ art_id < range_stop
    /\ AnswerTo(art_server, art_id).status # 404
    /\ IsHttpError(AnswerTo(art_server, art_id).status)
    /\ art_posted' = Append(art_posted, art_id)
    /\ failure' = "article"
    /\ pc' = "aborted"
    /\ UNCHANGED <<art_server, art_id, articles, metadata, art_result,
                   callVars, mergeVars, registryVars, fetchVars, matchVars,
                   targets, results, summary, report>>

\* the range is exhausted: the return after the loop
ArticlesCapped ==
    /\ pc = "articles"
    /\ art_id = range_stop
    /\ art_result' = ArticlesReturn
    /\ pc' = "articles_returned"
    /\ UNCHANGED <<art_server, art_id, art_posted, articles, metadata,
                   callVars, mergeVars, registryVars, fetchVars, matchVars, mainVars>>

ArticlesInit ==
    /\ pc = "articles"
    /\ art_server \in ArticleServers
    /\ art_id = 1 /\ art_posted = <<>>
    /\ articles = <<>> /\ metadata = None /\ art_result = None
    /\ CallIdle /\ MergeIdle
    /\ NoRegistry /\ FetchStart /\ MatchLocalsFresh /\ MainStart

ArticlesNext ==
    \/ ArticleFetched
    \/ ArticleMissing
    \/ ArticleFails
    \/ ArticlesCapped

SpecArticles == ArticlesInit /\ [][ArticlesNext]_vars

\* every request that was posted is answered
SpecArticlesFair == SpecArticles /\ WF_vars(ArticlesNext)

---------------------------------------------------------------------------
(* Properties                                                              *)

\* m is the list of the elements of a at the indices of K, in a's order
IsSublistAt(m, a, K) ==
    /\ Len(m) = Cardinality(K)
    /\ \E f \in [1..Len(m) -> K] :
          /\ \A i, j \in 1..Len(m) : i < j => f[i] < f[j]
          /\ \A i \in 1..Len(m) : m[i] = a[f[i]]

UrisOf(h) == { h[k].atto : k \in 1..Len(h) }

\* C1: combine of two non-empty hit lists is exactly the candidates of
\* hits_a whose atto also occurs in hits_b, in the order of hits_a.
C1_CombineIsOverlapInOrderOfA ==
    (pc = "refine" /\ hits_a # <<>> /\ hits_b # <<>>)
        => IsSublistAt(candidates, hits_a,
                       { k \in 1..Len(hits_a) : hits_a[k].atto \in UrisOf(hits_b) })

\* both lists non-empty, one act of hits_a in the overlap and one outside, the
\* shared act carried with different phases by the two lists
C1_Witness ==
    /\ pc = "refine"
    /\ Len(hits_a) = 2 /\ Len(hits_b) = 2
    /\ Len(candidates) = 1
    /\ candidates[1] \notin { hits_b[k] : k \in 1..Len(hits_b) }

\* C2: with exactly one hit list empty combine returns the other list
\* unchanged, and with both empty it returns the empty list.
C2_CombineFallsBackToTheNonEmptyList ==
    pc = "refine" =>
        /\ hits_a = <<>> => candidates = hits_b
        /\ hits_b = <<>> => candidates = hits_a

\* hits_a empty, hits_b with two candidates, all of them kept
C2_Witness ==
    /\ pc = "refine"
    /\ hits_a = <<>>
    /\ Len(hits_b) = 2
    /\ candidates = hits_b

Disjoint(a, b) == UrisOf(a) \cap UrisOf(b) = {}

\* C3 as stated: with two non-empty hit lists that share no atto the combined
\* result is hits_a and the confidence is that of a non-empty list.
C3_DisjointFallsBackToA ==
    (pc = "return" /\ hits_a # <<>> /\ hits_b # <<>> /\ Disjoint(hits_a, hits_b))
        => /\ candidates = hits_a
           /\ confidence = IF Len(matched) = 1 THEN "exact" ELSE "ambiguous"

\* C3 as the code has it: with two non-empty hit lists that share no atto
\* the combined result is empty, nothing is matched and the confidence is
\* no_match.
C3_DisjointIsNoMatch ==
    (pc = "return" /\ hits_a # <<>> /\ hits_b # <<>> /\ Disjoint(hits_a, hits_b))
        => /\ candidates = <<>>
           /\ matched = <<>>
           /\ confidence = "no_match"

\* both queries answered with acts, and no act in both answers
C3_Witness ==
    /\ pc = "return"
    /\ hits_a # <<>> /\ hits_b # <<>>
    /\ Disjoint(hits_a, hits_b)

Labelled(r) ==
    /\ r.confidence \in { "exact", "ambiguous", "no_match" }
    /\ r.confidence = "no_match" <=> Len(r.matched) = 0
    /\ r.confidence = "exact" <=> Len(r.matched) = 1
    /\ r.confidence = "ambiguous" <=> Len(r.matched) >= 2

\* C4: the confidence of every MatchResult is no_match iff no candidate is
\* matched, exact iff one is, ambiguous iff two or more are, and is never
\* another label.
C4_ConfidenceIsCardinality ==
    \A k \in 1..Len(results) : Labelled(results[k])

\* a result with two matched candidates, labelled ambiguous
C4_Witness ==
    \E k \in 1..Len(results) :
        Len(results[k].matched) = 2 /\ results[k].confidence = "ambiguous"

\* the words of a text: the maximal runs of at least four word characters of
\* the decoded text, in lower case
ClaimWords(text) ==
    LET t == lower(unescape(text))
        starts == { i \in 1..Len(t) :
                      /\ IsWordChar(Char(t, i))
                      /\ i = 1 \/ ~IsWordChar(Char(t, i - 1)) }
        EndOf(i) == Min({ j \in i..Len(t) :
                            j = Len(t) \/ ~IsWordChar(Char(t, j + 1)) })
    IN  { SubSeq(t, i, EndOf(i)) : i \in { x \in starts : EndOf(x) - x + 1 >= 4 } }

ClaimScore(words, c) == Cardinality(words \cap ClaimWords(c.titolo))

\* C5: for two or more candidates refine returns exactly the candidates whose
\* number of shared words is the maximum over the list, in their order: all
\* the candidates tied at the maximum, none below it.
C5_RefineKeepsAllBest ==
    (pc \in { "refined", "refined_twice" } /\ Len(candidates) >= 2) =>
        LET words  == ClaimWords(sotto_titolo)
            shared == [ k \in 1..Len(candidates) |->
                          ClaimScore(words, candidates[k]) ]
            best   == Max({ shared[k] : k \in 1..Len(candidates) })
        IN  IsSublistAt(matched, candidates,
                        { k \in 1..Len(candidates) : shared[k] = best })

\* three candidates, two different acts tied at a positive maximum and kept,
\* the third below it and dropped
C5_Witness ==
    /\ pc = "refined"
    /\ Len(candidates) = 3
    /\ Len(matched) = 2
    /\ matched[1].atto # matched[2].atto
    /\ ClaimScore(ClaimWords(sotto_titolo), matched[1]) > 0

\* C6: refine applied to its own result returns that result.
C6_RefineIdempotent ==
    pc = "refined_twice" => again = matched

\* the first application dropped a candidate and kept two, which the second
\* application scores again
C6_Witness ==
    /\ pc = "refined_twice"
    /\ Len(matched) = 2
    /\ Len(candidates) = 3
    /\ again = matched

FirstIdx(raw, uri) == Min({ j \in 1..Len(raw) : raw[j].atto.value = uri })

\* out holds one candidate per atto of raw, in the order of the first rows of
\* the acts, each with the values of that first row
IsFirstSeenDedup(out, raw) ==
    LET uris == { raw[j].atto.value : j \in 1..Len(raw) }
    IN  /\ UrisOf(out) = uris
        /\ Len(out) = Cardinality(uris)
        /\ \A p, q \in 1..Len(out) :
              p < q => FirstIdx(raw, out[p].atto) < FirstIdx(raw, out[q].atto)
        /\ \A p \in 1..Len(out) :
              LET r == raw[FirstIdx(raw, out[p].atto)]
              IN  /\ DOMAIN out[p] = DOMAIN r
                  /\ \A k \in DOMAIN r : out[p][k] = r[k].value

\* C7: flatten_hits returns one candidate per distinct atto of the rows, in
\* the order in which the acts first appear, each carrying the fields of the
\* first row of its act.
C7_FlattenKeepsFirstRows ==
    /\ pc = "flattened" => IsFirstSeenDedup(hits_a, raw_a)
    /\ pc = "deduped" => IsFirstSeenDedup(hits_b, raw_b)

\* three rows, the first and the last of the same act with different phases,
\* collapsed to the first
C7_Witness ==
    /\ pc = "flattened"
    /\ Len(raw_a) = 3 /\ Len(hits_a) = 2
    /\ raw_a[1].atto = raw_a[3].atto
    /\ raw_a[1] # raw_a[3]
    /\ hits_a[1].dataIter = raw_a[1].dataIter.value

\* C8 as stated: a failed query of Source A or Source B does not abort the
\* batch.
C8_QueryFailureDoesNotAbort ==
    failure \in { "query_a", "query_b" } => pc # "aborted"

\* C9: when a request of the listing fails the run stops there with the
\* error: no target is selected, no record is matched, no tally is printed
\* and no file is written.
C9_ListingFailureIsFatal ==
    failure = "listing" =>
        /\ pc = "aborted"
        /\ targets = <<>> /\ results = <<>>
        /\ MatchLocalsFresh
        /\ summary = None /\ report = None

\* the request of a later page failed, after records had been fetched
C9_Witness ==
    /\ failure = "listing"
    /\ Len(requested) >= 2
    /\ atti # <<>>

\* the number of the first empty page of the listing
FirstEmpty(pages) == Min({ p \in 1..(Len(pages) + 1) : PageOf(pages, p) = <<>> })

\* the pages 1, 2, ... are requested in order, each once; while the loop runs
\* every page read was non-empty and atti is their concatenation; once it has
\* returned, the last page requested is the first empty one and atti is the
\* concatenation of the pages before it
FetchDrains ==
    /\ requested = [k \in 1..Len(requested) |-> k]
    /\ pc = "fetch" =>
          /\ pagina = Len(requested) + 1
          /\ pagina <= FirstEmpty(listing)
          /\ atti = Flat(SubSeq(listing, 1, pagina - 1))
    /\ (pc # "fetch" /\ failure # "listing") =>
          /\ Len(requested) = FirstEmpty(listing)
          /\ atti = Flat(SubSeq(listing, 1, FirstEmpty(listing) - 1))

\* C10: the listing is drained page by page, in order, up to the first empty
\* page and no further, the result is the concatenation of the pages before
\* it, and the loop ends.
C10_ListingDrainedToFirstEmptyPage ==
    []FetchDrains /\ <>(pc # "fetch")

\* two pages of records were read and the third request found the empty page
C10_Witness ==
    /\ pc = "filter"
    /\ requested = <<1, 2, 3>>
    /\ Len(atti) >= 3

\* the records of the listing that main retains, in the order of the listing
Retained == Filter(atti, IsTarget)

\* C11 as stated: the i-th result belongs to the i-th retained record in the
\* order in which the listing returned the records.
C11_ResultsInRegistryOrder ==
    \A i \in 1..Len(results) :
        results[i].codice = Retained[i].codiceRedazionale

\* the place of the i-th retained record when the records are put in
\* ascending dataGU, records of one dataGU in the order of the listing
DateRank(i) ==
    1 + Cardinality({ j \in 1..Len(Retained) :
                        \/ StrLess(Retained[j].dataGU, Retained[i].dataGU)
                        \/ Retained[j].dataGU = Retained[i].dataGU /\ j < i })

\* C11 as the code has it: the results follow the retained records in
\* ascending dataGU, records of one dataGU in the order of the listing; the
\* i-th result belongs to the i-th record of that order.
C11_ResultsInDateOrder ==
    /\ Len(results) <= Len(Retained)
    /\ \A i \in 1..Len(Retained) :
          DateRank(i) <= Len(results) =>
              /\ results[DateRank(i)].codice = Retained[i].codiceRedazionale
              /\ results[DateRank(i)].dataGU = Retained[i].dataGU

\* a finished batch of three records: the first result is not the first
\* record of the listing, and two records of one dataGU follow each other
C11_Witness ==
    /\ pc = "done"
    /\ Len(results) = 3
    /\ results[1].codice # Retained[1].codiceRedazionale
    /\ results[2].dataGU = results[3].dataGU
    /\ results[2].codice = Retained[1].codiceRedazionale

IsPrefixOf(t, s) == Len(t) <= Len(s) /\ SubSeq(s, 1, Len(t)) = t

\* the listed instrument types that the description starts with
PrefixTypes(s) ==
    { t \in { NORM_TYPES[k] : k \in 1..Len(NORM_TYPES) } : IsPrefixOf(t, s) }

\* C12: classify_norm_type returns the longest listed type that is a prefix
\* of the description, and ALTRO when no listed type is a prefix.
C12_TypeIsLongestPrefix ==
    pc = "classified" =>
        IF PrefixTypes(call_arg) = {}
        THEN call_out = Some("ALTRO")
        ELSE \E t \in PrefixTypes(call_arg) :
                /\ \A u \in PrefixTypes(call_arg) : Len(u) <= Len(t)
                /\ call_out = Some(t)

\* a description that starts with two listed types, classified as the longer
C12_Witness ==
    /\ pc = "classified"
    /\ Cardinality(PrefixTypes(call_arg)) = 2
    /\ call_out # Some("DECRETO")

\* the sources match_norm has queried
SourcesQueried == { queried[k].source : k \in 1..Len(queried) }

\* what the keyword refinement and nothing else makes of one hit list
RefinedAlone(hits) ==
    IF Len(hits) > 1 THEN refine_by_keywords(sotto_titolo, hits) ELSE hits

\* C13: Source A is queried iff a decree reference was extracted and Source
\* B iff a date was extracted; a missing cue raises no error and leaves the
\* hit list of its strategy empty, and the result comes from the other
\* strategy alone (no_match when both cues are missing).
C13_MissOnlyRestrictsStrategies ==
    /\ failure = "query_a" => dl_ref # None
    /\ failure = "query_b" => law_date # None
    /\ pc \in { "combine", "refine", "classify", "return" } =>
          /\ "A" \in SourcesQueried <=> dl_ref # None
          /\ "B" \in SourcesQueried <=> law_date # None
          /\ Len(queried) = Cardinality(SourcesQueried)
          /\ dl_ref = None => hits_a = <<>>
          /\ law_date = None => hits_b = <<>>
    /\ pc = "return" =>
          /\ dl_ref = None => matched = RefinedAlone(hits_b)
          /\ law_date = None => matched = RefinedAlone(hits_a)
          /\ (dl_ref = None /\ law_date = None) =>
                 matched = <<>> /\ confidence = "no_match"

\* the month of the title is not a month name: only Source A was queried,
\* and its hits are the result
C13_Witness ==
    /\ pc = "return"
    /\ dl_ref # None /\ law_date = None
    /\ SourcesQueried = { "A" }
    /\ matched # <<>> /\ matched = hits_a

AllDigits(s, lo, hi) == \A k \in lo..hi : IsDigit(Char(s, k))

AllSpaces(s, lo, hi) == \A k \in lo..hi : IsSpace(Char(s, k))

AllWordChars(s, lo, hi) == \A k \in lo..hi : IsWordChar(Char(s, k))

\* the ways s has, from position i on, digits, white space, a word, white
\* space and four digits: <<i, a, b, c, d>> with the digits at i..a, the word
\* at b+1..c and the four digits at d+1..d+4
DateShapesAt(s, i) ==
    UNION { UNION { UNION { { <<i, a, b, c, d>> :
        d \in { x \in (c + 1)..(Len(s) - 4) :
                  AllSpaces(s, c + 1, x) /\ AllDigits(s, x + 1, x + 4) } } :
        c \in { x \in (b + 1)..Len(s) : AllWordChars(s, b + 1, x) } } :
        b \in { x \in (a + 1)..Len(s) : AllSpaces(s, a + 1, x) } } :
        a \in { x \in i..Len(s) : AllDigits(s, i, x) } }

DateShapeStarts(s) == { i \in 1..Len(s) : DateShapesAt(s, i) # {} }

RECURSIVE StrToNat(_)
StrToNat(s) ==
    IF s = "" THEN 0
    ELSE 10 * StrToNat(SubSeq(s, 1, Len(s) - 1))
         + (CHOOSE n \in 0..9 : Char(DigitChars, n + 1) = Char(s, Len(s)))

\* the date a shape stands for: the year, the number of the month and the
\* day's number in at least two digits; nothing when the word is no month
DateOfShape(s, q) ==
    LET word == lower(SubSeq(s, q[3] + 1, q[4]))
    IN  IF word \in DOMAIN MESI
        THEN Some(SubSeq(s, q[5] + 1, q[5] + 4) \o MESI[word]
                      \o fmt_02d(StrToNat(SubSeq(s, q[1], q[2]))))
        ELSE None

\* the places where s has a day of one or two digits, a space, a month name
\* of the table, a space and a year of four digits: <<day, month, year>>
DateMentions(s) ==
    { <<SubSeq(s, q[1], q[2]), SubSeq(s, q[3] + 1, q[4]),
        SubSeq(s, q[5] + 1, q[5] + 4)>> :
        q \in { r \in UNION { DateShapesAt(s, i) : i \in 1..Len(s) } :
                  /\ r[1] = 1 \/ ~IsDigit(Char(s, r[1] - 1))
                  /\ r[2] - r[1] < 2
                  /\ r[3] = r[2] + 1 /\ Char(s, r[3]) = " "
                  /\ r[5] = r[4] + 1 /\ Char(s, r[5]) = " "
                  /\ SubSeq(s, r[3] + 1, r[4]) \in DOMAIN MESI
                  /\ r[5] + 4 = Len(s) \/ ~IsDigit(Char(s, r[5] + 5)) } }

\* C14 as stated: a title that mentions a date 'D MESE YYYY' with MESE in
\* the table gives YYYY, the number of the month and D in two digits; a title
\* with no month name of the table gives nothing.
C14_DateOfAnyMention ==
    pc = "date_extracted" =>
        /\ \A m \in DateMentions(call_arg) :
              Cardinality(DateMentions(call_arg)) = 1 =>
                  call_out = Some(m[3] \o MESI[m[2]]
                                      \o (IF Len(m[1]) = 1 THEN "0" \o m[1] ELSE m[1]))
        /\ (\A i \in 1..Len(call_arg) : \A q \in DateShapesAt(call_arg, i) :
               DateOfShape(call_arg, q) = None) => call_out = None

\* C14 as the code has it: the first place of the title with digits, white
\* space, a word, white space and four digits decides: when the word, in
\* lower case, is a month name of the table the result is the four digits,
\* the number of the month and the day's number in at least two digits;
\* otherwise, and for a title with no such place, the result is absent.
C14_DateOfFirstShape ==
    pc = "date_extracted" =>
        IF DateShapeStarts(call_arg) = {}
        THEN call_out = None
        ELSE \A q \in DateShapesAt(call_arg, Min(DateShapeStarts(call_arg))) :
                call_out = DateOfShape(call_arg, q)

\* a title that mentions one date, after a number, a word that is no month
\* and a year: nothing is extracted
C14_Witness ==
    /\ pc = "date_extracted"
    /\ Cardinality(DateMentions(call_arg)) = 1
    /\ call_out = None

\* C15 as stated: a returned date is a string of 8 digits, a year of four, a
\* month from 01 to 12 and a day of two.
C15_DateIsEightDigits ==
    (pc = "date_extracted" /\ call_out # None) =>
        /\ Len(call_out[1]) = 8
        /\ AllDigits(call_out[1], 1, 8)
        /\ SubSeq(call_out[1], 5, 6) \in { MESI[m] : m \in DOMAIN MESI }

\* where a run of white space that starts at from may end; at from - 1 when
\* the run may be empty (least = 0)
SpaceEnds(s, from, least) ==
    { x \in (from + least - 1)..Len(s) : AllSpaces(s, from, x) }

DigitEnds(s, from) == { x \in from..Len(s) : AllDigits(s, from, x) }

WordEnds(s, from) == { x \in from..Len(s) : AllWordChars(s, from, x) }

\* where a date text that starts at p may end: digits, white space, a word,
\* white space, four digits
DecreeDateEnds(s, p) ==
    { e + 4 :
        e \in UNION { UNION { { x \in SpaceEnds(s, d + 1, 1) :
                                  x + 4 <= Len(s) /\ AllDigits(s, x + 1, x + 4) } :
                              d \in WordEnds(s, c + 1) } :
                      c \in UNION { SpaceEnds(s, b + 1, 1) : b \in DigitEnds(s, p) } } }

\* the numbers <<from, to>> that may follow a date text that ends at q: a
\* comma, 'n.' in either case, and the whole run of digits
DecreeNumbersAfter(s, q) ==
    IF q + 1 <= Len(s) /\ Char(s, q + 1) = ","
    THEN UNION { UNION { { <<g + 1, h>> :
             h \in { x \in DigitEnds(s, g + 1) :
                       x = Len(s) \/ ~IsDigit(Char(s, x + 1)) } } :
             g \in SpaceEnds(s, f + 3, 0) } :
             f \in { x \in SpaceEnds(s, q + 2, 0) :
                       /\ x + 2 <= Len(s)
                       /\ Char(s, x + 1) \in { "n", "N" }
                       /\ Char(s, x + 2) = "." } }
    ELSE {}

\* the references 'decreto-legge D MESE YYYY, n. N' that start at position i:
\* <<p, q, r, t>> with the date text at p..q and the number at r..t
DecreeShapesAt(s, i) ==
    IF i + 12 <= Len(s) /\ lower(SubSeq(s, i, i + 12)) = "decreto-legge"
    THEN UNION { UNION { { <<a + 1, q, n[1], n[2]>> : n \in DecreeNumbersAfter(s, q) } :
                         q \in DecreeDateEnds(s, a + 1) } :
                 a \in SpaceEnds(s, i + 13, 1) }
    ELSE {}

DecreeShapeStarts(s) == { i \in 1..Len(s) : DecreeShapesAt(s, i) # {} }

\* C16: a text that contains 'decreto-legge D MESE YYYY, n. N', in either
\* case, gives the date text and the number of its first occurrence, both
\* non-empty; a text that does not contain it gives absent.
C16_RefOfFirstOccurrence ==
    pc = "ref_extracted" =>
        IF DecreeShapeStarts(call_arg) = {}
        THEN call_out = None
        ELSE /\ call_out # None
             /\ call_out[1].data_str # "" /\ call_out[1].numero # ""
             /\ \A q \in DecreeShapesAt(call_arg, Min(DecreeShapeStarts(call_arg))) :
                   /\ call_out[1].data_str = SubSeq(call_arg, q[1], q[2])
                   /\ call_out[1].numero = SubSeq(call_arg, q[3], q[4])

\* a text with two references: the first is returned
C16_Witness ==
    /\ pc = "ref_extracted"
    /\ Cardinality(DecreeShapeStarts(call_arg)) = 2
    /\ call_out = Some([data_str |-> "3 ottobre 2025", numero |-> "145"])

SharedUris == UrisOf(hits_a) \cap UrisOf(hits_b)

\* C17: with a decree reference extracted and hit lists of Source A and
\* Source B that share exactly one atto, matched is that one candidate of
\* Source A and the confidence is exact, whatever else Source B returned.
C17_OneSharedActIsExact ==
    (pc = "return" /\ dl_ref # None /\ Cardinality(SharedUris) = 1) =>
        /\ Len(matched) = 1
        /\ matched[1].atto \in SharedUris
        /\ \E k \in 1..Len(hits_a) : matched[1] = hits_a[k]
        /\ confidence = "exact"

\* decreto-legge n. 145: Source A returns one candidate in two rows, Source
\* B returns it and another act of the same day
C17_Witness ==
    /\ pc = "return"
    /\ dl_ref = Some([data_str |-> "3 ottobre 2025", numero |-> "145"])
    /\ Len(raw_a) = 2 /\ Len(hits_a) = 1
    /\ Len(hits_b) = 2
    /\ Cardinality(SharedUris) = 1
    /\ confidence = "exact"

\* the candidates of hits_b with the highest number of words shared with the
\* subtitle
BestOfB ==
    LET words  == ClaimWords(sotto_titolo)
        shared == [ k \in 1..Len(hits_b) |-> ClaimScore(words, hits_b[k]) ]
    IN  { k \in 1..Len(hits_b) : \A j \in 1..Len(hits_b) : shared[j] <= shared[k] }

\* C18: with no decree reference, Source B alone is queried, with the date
\* of the title; when it returns several candidates and one of them shares
\* strictly more words with the subtitle than every other, matched is that
\* candidate alone and the confidence is exact.
C18_DateOnlyBestCandidateIsExact ==
    /\ (pc \in { "combine", "refine", "classify", "return" }
            /\ dl_ref = None /\ law_date # None) =>
          queried = << Query("B", law_date[1]) >>
    /\ (pc = "return" /\ dl_ref = None /\ Len(hits_b) >= 2
            /\ Cardinality(BestOfB) = 1) =>
          /\ \A k \in BestOfB : matched = << hits_b[k] >>
          /\ confidence = "exact"

\* title 'LEGGE 18 novembre 2025, n. 174': Source B is asked for 20251118
\* and returns three acts of that day, which share 3, 2 and 0 words with the
\* subtitle
C18_Witness ==
    /\ pc = "return"
    /\ dl_ref = None
    /\ queried = << Query("B", "20251118") >>
    /\ Len(hits_b) = 3
    /\ Len(matched) = 1
    /\ ClaimScore(ClaimWords(sotto_titolo), matched[1]) = 3
    /\ \E k \in 1..3 : ClaimScore(ClaimWords(sotto_titolo), hits_b[k]) = 2
    /\ confidence = "exact"

\* the join key of a uri: the uri without white space around it and without
\* its scheme
JoinKey(uri) ==
    LET u == strip(uri)
    IN  IF IsPrefixOf("https://", u) THEN SubSeq(u, 9, Len(u))
        ELSE IF IsPrefixOf("http://", u) THEN SubSeq(u, 8, Len(u))
        ELSE u

\* the Camera rows with the key of the i-th norm row
JoinedTo(i) ==
    { j \in 1..Len(camera_rows) :
        /\ JoinKey(camera_rows[j].normattiva_uri) # ""
        /\ JoinKey(camera_rows[j].normattiva_uri) = JoinKey(norme[i].normattiva_uri) }

\* C19 as stated: every norm row gives one output row, in input order, with
\* the act and Senate uri of a Camera row of the same key, or empty strings
\* when there is none; every Camera row is in the output, joined to its norm
\* row or as a row of its own after the norm rows.
C19_MergeIsFullOuterJoin ==
    pc = "merged" =>
        /\ Len(merged) >= Len(norme)
        /\ \A i \in 1..Len(norme) :
              /\ merged[i].normattiva_uri = norme[i].normattiva_uri
              /\ IF JoinedTo(i) = {}
                 THEN merged[i].camera_uri = "" /\ merged[i].senato_uri = ""
                 ELSE \E j \in JoinedTo(i) :
                         /\ merged[i].camera_uri = camera_rows[j].atto
                         /\ merged[i].senato_uri = camera_rows[j].senato_uri
        /\ \A j \in 1..Len(camera_rows) :
              \/ \E i \in 1..Len(norme) :
                    /\ j \in JoinedTo(i)
                    /\ merged[i].camera_uri = camera_rows[j].atto
                    /\ merged[i].senato_uri = camera_rows[j].senato_uri
              \/ \E k \in (Len(norme) + 1)..Len(merged) :
                    merged[k] = MergedRow(camera_rows[j].normattiva_uri,
                                          camera_rows[j].atto,
                                          camera_rows[j].senato_uri)

\* the answer to idArticolo k is an article: not a 404, not an error status
IsArticle(k) ==
    /\ AnswerTo(art_server, k).status # 404
    /\ ~IsHttpError(AnswerTo(art_server, k).status)

\* the articoloHtml of the answers to idArticolo 1..n
HtmlUpTo(n) ==
    [ k \in 1..n |->
        IF "articoloHtml" \in DOMAIN AnswerTo(art_server, k).atto
        THEN AnswerTo(art_server, k).atto.articoloHtml
        ELSE "" ]

\* while the loop runs nothing is returned; a return follows requests 1..n in
\* order, with the n-th the first 404, or with n = 9999 and no 404, gives the
\* html of every article before the stop and the atto of the first one (an
\* empty one when there is none); an error status other than 404 ends the
\* call with the error and no return
ArticlesDrained ==
    /\ pc = "articles" =>
          /\ art_id = Len(art_posted) + 1
          /\ Len(articles) = Len(art_posted)
          /\ art_result = None /\ failure = ""
    /\ pc = "articles_returned" =>
          LET n == Len(art_posted)
          IN  /\ art_posted = [ k \in 1..n |-> k ]
              /\ \/ /\ n >= 1
                    /\ AnswerTo(art_server, n).status = 404
                    /\ \A k \in 1..(n - 1) : IsArticle(k)
                    /\ articles = HtmlUpTo(n - 1)
                 \/ /\ n = 9999
                    /\ \A k \in 1..n : IsArticle(k)
                    /\ articles = HtmlUpTo(n)
              /\ art_result =
                    Some(<< IF articles = <<>> THEN <<>>
                            ELSE AnswerTo(art_server, 1).atto, articles >>)
              /\ failure = ""
    /\ failure = "article" =>
          LET n == Len(art_posted)
          IN  /\ pc = "aborted" /\ art_result = None
              /\ art_posted = [ k \in 1..n |-> k ]
              /\ n >= 1
              /\ AnswerTo(art_server, n).status # 404
              /\ IsHttpError(AnswerTo(art_server, n).status)
              /\ \A k \in 1..(n - 1) : IsArticle(k)

\* C20: fetch_all_articles requests idArticolo 1, 2, 3, ... in order, stops
\* at the first 404 or after idArticolo 9999, returns the html of every
\* article before the stop with the metadata of the first one (empty when
\* there is none), and raises on any other error status; it always ends.
C20_ArticlesUntilFirst404 ==
    []ArticlesDrained /\ <>(pc # "articles")

\* two articles, then the 404: both are returned with the metadata of the
\* first, which differs from the second
C20_Witness ==
    /\ pc = "articles_returned"
    /\ art_posted = <<1, 2, 3>>
    /\ Len(articles) = 2
    /\ art_result[1][1] = AnswerTo(art_server, 1).atto
    /\ AnswerTo(art_server, 1).atto # AnswerTo(art_server, 2).atto

\* C21: refine_by_keywords applied to a list of no or one candidate returns
\* that list, whatever the subtitle, and builds no list of scores.
C21_RefineNoOpOnShortLists ==
    (pc = "refined" /\ Len(candidates) <= 1) =>
        /\ matched = candidates
        /\ scored = <<>>

\* a single candidate whose title shares a significant word with the subtitle
\* came back as it was
C21_Witness ==
    /\ pc = "refined"
    /\ Len(candidates) = 1
    /\ ClaimScore(ClaimWords(sotto_titolo), candidates[1]) > 0
    /\ matched = candidates

\* the rows of raw_a with the act of uri
RowsOfAct(uri) == { j \in 1..Len(raw_a) : raw_a[j].atto.value = uri }

\* C22: the rows Source A returns are in ascending order of phase date, and
\* after normalization each act of those rows appears once, with the phase
\* title and the phase date of one of its rows that no other of its rows
\* precedes in date.
C22_SourceAHitsCarryEarliestPhase ==
    /\ \A i, j \in 1..Len(raw_a) :
          i < j => StrToNat(raw_a[i].dataIter.value) <= StrToNat(raw_a[j].dataIter.value)
    /\ \A j \in 1..Len(raw_a) :
          Cardinality({ k \in 1..Len(hits_a) : hits_a[k].atto = raw_a[j].atto.value }) = 1
    /\ \A k \in 1..Len(hits_a) :
          \E j \in RowsOfAct(hits_a[k].atto) :
             /\ hits_a[k].fase = raw_a[j].fase.value
             /\ hits_a[k].dataIter = raw_a[j].dataIter.value
             /\ \A o \in RowsOfAct(hits_a[k].atto) :
                   StrToNat(raw_a[j].dataIter.value) <= StrToNat(raw_a[o].dataIter.value)

\* Source A returned two rows of one act with different phase dates, and the
\* act is kept once with the earlier date
C22_Witness ==
    /\ pc = "search_b"
    /\ Len(raw_a) >= 2
    /\ \E i, j \in 1..Len(raw_a) :
          /\ raw_a[i].atto.value = raw_a[j].atto.value
          /\ raw_a[i].dataIter.value # raw_a[j].dataIter.value
    /\ Len(hits_a) = 1
    /\ hits_a[1].dataIter = "20251105"

\* the title names the decree number n: "n. " and the digits of n, with no
\* further digit after them
MentionsNumber(title, n) ==
    \E i \in 1..Len(title) :
        /\ i + Len(n) + 2 <= Len(title)
        /\ SubSeq(title, i, i + Len(n) + 2) = "n. " \o n
        /\ i + Len(n) + 3 <= Len(title) => ~IsDigit(Char(title, i + Len(n) + 3))

\* C23: every act Source A returns for the extracted decree number N has a
\* title that names the number N itself, not only a longer number that
\* begins with the digits of N.
C23_SourceAHitsNameTheNumber ==
    dl_ref # None =>
        \A k \in 1..Len(hits_a) : MentionsNumber(hits_a[k].titolo, dl_ref[1].numero)

ConfidenceLabels == { "exact", "ambiguous", "no_match" }

\* C24: when the tally is printed the results hold one MatchResult for each
\* retained record and no other, each with one of the three labels, and the
\* three counts of the tally are the numbers of results of each label and
\* add up to the number of retained records.
C24_TallyCountsEveryRetainedRecord ==
    summary # None =>
        /\ Len(results) = Len(Retained)
        /\ \A i \in 1..Len(Retained) :
              Cardinality({ k \in 1..Len(results) :
                              /\ results[k].codice = Retained[i].codiceRedazionale
                              /\ results[k].dataGU = Retained[i].dataGU }) = 1
        /\ \A k \in 1..Len(results) : results[k].confidence \in ConfidenceLabels
        /\ \A l \in ConfidenceLabels :
              summary[1][l] = Cardinality({ k \in 1..Len(results) :
                                              results[k].confidence = l })
        /\ summary[1].exact + summary[1].ambiguous + summary[1].no_match
              = Len(Retained)

\* a finished batch of three records, some matched exactly and some not at all
C24_Witness ==
    /\ summary # None
    /\ Len(Retained) = 3
    /\ summary[1].exact >= 1 /\ summary[1].no_match >= 1

\* the record is a LEGGE published in November 2025, the month asked for
IsLeggeOfTheMonth(a) ==
    /\ Len(a.descrizioneAtto) >= 5 /\ SubSeq(a.descrizioneAtto, 1, 5) = "LEGGE"
    /\ Len(a.dataGU) >= 7 /\ SubSeq(a.dataGU, 1, 7) = "2025-11"

\* the record stands behind the key (codice, dataGU)
HasKey(a, codice, data_gu) == a.codiceRedazionale = codice /\ a.dataGU = data_gu

\* C25: every record handed to match_norm, and every record with a result,
\* is a record of the listing of type LEGGE with a dataGU in the month asked
\* for; a record of the listing of another type or of another month is never
\* a target, never has a result, and is not counted in the tally.
C25_OnlyLeggeOfTheMonthIsMatched ==
    /\ \A k \in 1..Len(targets) :
          \E i \in 1..Len(atti) : atti[i] = targets[k] /\ IsLeggeOfTheMonth(atti[i])
    /\ \A k \in 1..Len(results) :
          \E i \in 1..Len(atti) :
             /\ HasKey(atti[i], results[k].codice, results[k].dataGU)
             /\ IsLeggeOfTheMonth(atti[i])
    /\ \A i \in 1..Len(atti) :
          ~IsLeggeOfTheMonth(atti[i]) =>
             /\ \A k \in 1..Len(targets) : targets[k] # atti[i]
             /\ \A k \in 1..Len(results) :
                   ~HasKey(atti[i], results[k].codice, results[k].dataGU)
    /\ summary # None =>
          summary[1].exact + summary[1].ambiguous + summary[1].no_match
             = Cardinality({ i \in 1..Len(atti) : IsLeggeOfTheMonth(atti[i]) })

\* a finished batch whose listing held a LEGGE of the month, a decree of the
\* month and a LEGGE of the next month: one result
C25_Witness ==
    /\ pc = "done"
    /\ Len(results) = 1
    /\ \E i, j \in 1..Len(atti) :
          /\ atti[i].descrizioneAtto = "DECRETO-LEGGE" /\ atti[i].dataGU = "2025-11-10"
          /\ atti[j].descrizioneAtto = "LEGGE" /\ atti[j].dataGU = "2025-12-01"

\* the candidates of a list, as a set
Elems(h) == { h[k] : k \in 1..Len(h) }

\* C26: in every MatchResult the matched candidates have pairwise distinct
\* atto, each is a candidate of strategy_a or of strategy_b, and when both
\* lists are non-empty each has its atto in both lists and is the record of
\* strategy_a.
C26_MatchedComeFromTheHits ==
    \A n \in 1..Len(results) :
        LET r == results[n]
        IN  /\ \A i, j \in 1..Len(r.matched) :
                  i # j => r.matched[i].atto # r.matched[j].atto
            /\ \A k \in 1..Len(r.matched) :
                  r.matched[k] \in Elems(r.strategy_a) \cup Elems(r.strategy_b)
            /\ (r.strategy_a # <<>> /\ r.strategy_b # <<>>) =>
                  \A k \in 1..Len(r.matched) :
                     /\ r.matched[k] \in Elems(r.strategy_a)
                     /\ \E h \in Elems(r.strategy_b) : h.atto = r.matched[k].atto

\* both strategies found the act, with different phase dates: the matched
\* candidate is the record of strategy_a and not the one of strategy_b
C26_Witness ==
    /\ Len(results) = 1
    /\ Len(results[1].matched) = 1
    /\ results[1].matched[1] \in Elems(results[1].strategy_a)
    /\ results[1].matched[1] \notin Elems(results[1].strategy_b)
    /\ \E h \in Elems(results[1].strategy_b) : h.atto = results[1].matched[1].atto

\* C27: the disambiguation of a non-empty candidate list leaves a candidate,
\* so the confidence is no_match exactly when the combined list was empty: a
\* single candidate stays exact and several candidates end exact or
\* ambiguous, never no_match.
C27_RefineNeverEmptiesAMatch ==
    /\ pc \in { "classify", "return" } => (candidates = <<>> <=> matched = <<>>)
    /\ pc = "return" =>
          /\ confidence = "no_match" <=> candidates = <<>>
          /\ Len(candidates) = 1 => confidence = "exact"
          /\ Len(candidates) > 1 => confidence \in { "exact", "ambiguous" }

\* two candidates, neither sharing a word with the subtitle: both are kept
C27_Witness ==
    /\ pc = "return"
    /\ Len(candidates) = 2
    /\ \A k \in 1..2 : ClaimScore(ClaimWords(sotto_titolo), candidates[k]) = 0
    /\ matched = candidates
    /\ confidence = "ambiguous"

\* C28: what refine_by_keywords returns is its input with some candidates
\* left out: the candidates at a set of places of the input, each as it was,
\* in the order of the input.
C28_RefineReturnsSublist ==
    pc = "refined" =>
        \E K \in SUBSET (1..Len(candidates)) : IsSublistAt(matched, candidates, K)

\* of three different candidates the first and the last are returned
C28_Witness ==
    /\ pc = "refined"
    /\ Len(candidates) = 3
    /\ candidates[1] # candidates[3]
    /\ candidates[2] \notin { candidates[1], candidates[3] }
    /\ matched = << candidates[1], candidates[3] >>

\* C29: the hit lists of a MatchResult are the normalized rows of Source A
\* and of Source B as the two queries returned them for the record, whether
\* the matched list is their intersection, one of them whole, or a list
\* narrowed by the disambiguation; and from the combination on the two lists
\* stay as the normalization left them.
C29_HitListsAreLeftAsNormalized ==
    /\ pc \in { "combine", "refine", "classify", "return" } =>
          /\ IsFirstSeenDedup(hits_a, raw_a)
          /\ IsFirstSeenDedup(hits_b, raw_b)
    /\ \A n \in 1..Len(results) :
          /\ IsFirstSeenDedup(results[n].strategy_a, raw_a)
          /\ IsFirstSeenDedup(results[n].strategy_b, raw_b)

\* Source B alone found two acts and the disambiguation kept one of them:
\* the result still holds both in strategy_b
C29_Witness ==
    /\ Len(results) = 1
    /\ results[1].strategy_a = <<>>
    /\ Len(results[1].strategy_b) = 2
    /\ Len(results[1].matched) = 1
    /\ Len(raw_b) = 2

\* C30: in the summary of the merge, Matched is the number of norm rows that
\* were joined to a Camera row, Normattiva only the number of norm rows that
\* were not, Camera only the number of rows added for Camera rows after the
\* norm rows, and the three add up to the number of merged rows.
C30_SummaryCountsPartitionTheRows ==
    pc = "merge_summary" =>
        /\ merge_stats[1].matched
              = Cardinality({ i \in 1..Len(norme) : JoinedTo(i) # {} })
        /\ merge_stats[1].norm_only
              = Cardinality({ i \in 1..Len(norme) : JoinedTo(i) = {} })
        /\ merge_stats[1].cam_only = Len(merged) - Len(norme)
        /\ merge_stats[1].matched + merge_stats[1].norm_only + merge_stats[1].cam_only
              = Len(merged)

===========================================================================
